---- MODULE Spec2Model ----
(***************************************************************************)
(* Model of the TAD generation pipeline of backend/app/services:           *)
(*   context_normalizer.py  (Stage 1, completeness of the raw input)       *)
(*   tad_orchestrator.py    (generate_tad, the per-section correction      *)
(*                           loop, assembly of the document)               *)
(*   structured_rag_retriever.py (Stage 2, retrieve_all query by query)    *)
(*   reviewer_agent.py      (validate_section: automated checks, the       *)
(*                           model-assisted check, their combination)      *)
(* Spec runs generate_tad with the Writer, the Reviewer, the retrieval and  *)
(* the naming collaborators as inputs of its actions; SpecNorm, SpecRag and *)
(* SpecReview run normalize, retrieve_all and validate_section on their own.*)
(*   naming_service.py      (generate_resource_group_name and              *)
(*                           validate_resource_group_name)                 *)
(* SpecAcronym, SpecNaming and SpecValidateName run _extract_acronym,      *)
(* generate_resource_group_name and validate_resource_group_name on their  *)
(* own; SpecNaming also hands a generated name to the validation.          *)
(* SpecNormCalls calls normalize repeatedly while the clock advances.      *)
(***************************************************************************)
EXTENDS Integers, Sequences, FiniteSets, TLC

VARIABLES
    pc,                 \* position of the run inside generate_tad / normalize
    raw,                \* raw_requirements: optional field -> state of its value
    normalized_context, \* result of context_normalizer.normalize
    rag_data,           \* taxonomy entry -> found, as returned by retrieve_all
    retrieval_queries,  \* number of hybrid_search queries issued by Stage 2
    naming_data,        \* sequence of <<key, variant>>, one per environment
    naming_calls,       \* number of generate_resource_group_name calls
    idx,                \* index into GenerationOrder of the section in progress
    attempt,            \* loop variable of _generate_section_with_validation
    feedback,           \* feedback carried into the next Writer call
    section_content,    \* text returned by the Writer call of this attempt
    log,                \* the attempts of the latest _generate_section_with_validation call
    sections,           \* dict sections (insertion ordered): <<key, content>>
    validation_report,  \* dict validation_report: <<key, validation>>
    section_results,    \* per section: the attempts count and the return taken
    result,             \* value returned by generate_tad
    rag_metadata,       \* rag_data["metadata"], the counters of retrieve_all
    rag_partial,        \* retrieve_all in progress: <<entry, result>> per query made
    query_log,          \* retrieve_all in progress: <<entry, outcome, query>> per query made
    review_content,     \* validate_section: the text under review
    review_section,     \* validate_section: key of the section under review
    automated_validation, \* validate_section: result of _automated_validation
    llm_response,       \* validate_section: what the chat completion call did
    llm_validation,     \* validate_section: result of _llm_validation
    review_result,      \* value returned by validate_section
    llm_calls,          \* number of chat completion calls made by the Reviewer
    project_name,       \* _extract_acronym: the full name, as characters
    acronyms,           \* _extract_acronym: the value returned by each call
    requirements,       \* generate_resource_group_name: its argument
    search_outcome,     \* generate_resource_group_name: what hybrid_search did
    rag_results,        \* generate_resource_group_name: the chunks it kept
    rg_result,          \* value returned by generate_resource_group_name
    rg_name,            \* validate_resource_group_name: its argument
    rg_validation,      \* value returned by validate_resource_group_name
    utcnow,             \* the clock read by datetime.utcnow()
    normalize_calls     \* normalize called repeatedly: the outcome of each call

\* the state of a retrieve_all call in progress
RetrievalVars == <<rag_partial, query_log>>

\* the state of a validate_section call
ReviewVars == <<review_content, review_section, automated_validation,
                llm_response, llm_validation, review_result, llm_calls>>

\* the state of the calls of single functions
UnitVars == <<project_name, acronyms, requirements, search_outcome, rag_results,
              rg_result, rg_name, rg_validation, utcnow, normalize_calls>>

vars == <<pc, raw, normalized_context, rag_data, retrieval_queries, naming_data,
          naming_calls, idx, attempt, feedback, section_content, log, sections,
          validation_report, section_results, result, rag_metadata,
          RetrievalVars, ReviewVars, UnitVars>>

(***************************************************************************)
(* Bounds of the model                                                     *)
(***************************************************************************)
\* at most this many sections of a run deviate from "valid on the first attempt"
MaxTroubled == 1
\* at most this many attempts of a run end otherwise than in a clean validation
MaxDisturbed == 3
\* at most this many optional fields are supplied in a normalizer input
MaxProvided == 4
\* a text under review has at most this many paragraphs
MaxParagraphs == 3
\* a text under review holds at most this many of the generic phrases
MaxGeneric == 2
\* at most this many queries of one retrieve_all call return an empty list
MaxEmpty == 1
\* a project name handed to _extract_acronym has at most this many words
MaxWords == 3
\* _extract_acronym is called at most this many times on one name
MaxCalls == 2
\* normalize called repeatedly: at most this many optional fields are supplied,
MaxGiven == 2
\* at most this many of them hold a value that is neither a string nor a list,
MaxMalformed == 1
\* and the clock advances at most this many times
MaxTicks == 1
\* hybrid_search returns at most this many chunks to the naming service
MaxChunks == 2
\* at most this many segments of a resource group name differ from a valid one
MaxAltered == 2

(***************************************************************************)
(* Small helpers                                                           *)
(***************************************************************************)
Min(a, b) == IF a < b THEN a ELSE b
Max(a, b) == IF a > b THEN a ELSE b
Range(s) == {s[i] : i \in 1..Len(s)}

RECURSIVE SumSeq(_)
SumSeq(s) == IF s = <<>> THEN 0 ELSE Head(s) + SumSeq(Tail(s))

Take(s, n) == SubSeq(s, 1, Min(n, Len(s)))

\* Python str, as the sequence of its characters
UpperLetters ==
    <<"A", "B", "C", "D", "E", "F", "G", "H", "I", "J", "K", "L", "M", "N",
       "O", "P", "Q", "R", "S", "T", "U", "V", "W", "X", "Y", "Z">>
LowerLetters ==
    <<"a", "b", "c", "d", "e", "f", "g", "h", "i", "j", "k", "l", "m", "n",
       "o", "p", "q", "r", "s", "t", "u", "v", "w", "x", "y", "z">>
Digits == {"0", "1", "2", "3", "4", "5", "6", "7", "8", "9"}
Whitespace == {" ", "\t", "\n"}

LetterIndex(letters, c) == CHOOSE i \in 1..Len(letters) : letters[i] = c

\* str.upper() and str.lower()
UpperChar(c) ==
    IF c \in Range(LowerLetters) THEN UpperLetters[LetterIndex(LowerLetters, c)] ELSE c
LowerChar(c) ==
    IF c \in Range(UpperLetters) THEN LowerLetters[LetterIndex(UpperLetters, c)] ELSE c
UpperStr(s) == [i \in 1..Len(s) |-> UpperChar(s[i])]
LowerStr(s) == [i \in 1..Len(s) |-> LowerChar(s[i])]

\* str.split(sep) for the separator characters seps: empty pieces are kept
RECURSIVE SplitOn(_, _)
SplitOn(s, seps) ==
    IF \A i \in 1..Len(s) : s[i] \notin seps THEN <<s>>
    ELSE LET i == CHOOSE k \in 1..Len(s) :
                      s[k] \in seps /\ \A j \in 1..(k - 1) : s[j] \notin seps
         IN  <<SubSeq(s, 1, i - 1)>> \o SplitOn(SubSeq(s, i + 1, Len(s)), seps)

\* str.split(): pieces between runs of whitespace, none of them empty
SplitWords(s) == SelectSeq(SplitOn(s, Whitespace), LAMBDA w : w # <<>>)

\* sep.join(parts)
RECURSIVE Join(_, _)
Join(parts, sep) ==
    IF parts = <<>> THEN <<>>
    ELSE IF Len(parts) = 1 THEN parts[1]
    ELSE parts[1] \o sep \o Join(Tail(parts), sep)

\* "needle in hay" and hay.startswith(needle)
Contains(hay, needle) ==
    \E i \in 0..(Len(hay) - Len(needle)) :
        SubSeq(hay, i + 1, i + Len(needle)) = needle
StartsWith(hay, needle) ==
    Len(hay) >= Len(needle) /\ SubSeq(hay, 1, Len(needle)) = needle

\* str.strip()
RECURSIVE LStrip(_)
LStrip(s) ==
    IF s # <<>> /\ Head(s) \in Whitespace THEN LStrip(Tail(s)) ELSE s
RECURSIVE RStrip(_)
RStrip(s) ==
    IF s # <<>> /\ s[Len(s)] \in Whitespace
    THEN RStrip(SubSeq(s, 1, Len(s) - 1)) ELSE s
Strip(s) == RStrip(LStrip(s))

\* Python dict with insertion order, as a sequence of <<key, value>>
DictKeys(d) == [i \in 1..Len(d) |-> d[i][1]]
DictHas(d, k) == \E i \in 1..Len(d) : d[i][1] = k
DictGet(d, k) == d[CHOOSE i \in 1..Len(d) : d[i][1] = k][2]
DictSet(d, k, v) ==
    IF DictHas(d, k)
    THEN [i \in 1..Len(d) |-> IF d[i][1] = k THEN <<k, v>> ELSE d[i]]
    ELSE Append(d, <<k, v>>)

(***************************************************************************)
(* section_schemas.py                                                      *)
(***************************************************************************)
TAD_SECTION_ORDER ==
    << "executive_summary", "context", "functional_requirements",
       "non_functional_requirements", "constraints", "assumptions", "risks",
       "solution_overview", "component_decomposition", "hosting",
       "identity_access_management", "network_configuration",
       "security_controls", "data_management", "monitoring_observability",
       "disaster_recovery", "cost_estimation", "deployment_strategy", "adrs" >>

\* keys of the registry TAD_SECTION_SCHEMAS
TAD_SECTION_SCHEMAS ==
    { "executive_summary", "context", "functional_requirements",
      "non_functional_requirements", "constraints", "assumptions", "risks",
      "solution_overview", "component_decomposition", "hosting",
      "identity_access_management", "network_configuration",
      "security_controls", "data_management", "monitoring_observability",
      "disaster_recovery", "cost_estimation", "deployment_strategy", "adrs" }

\* class SectionSchema, by the fields the Writer and the Reviewer read; a
\* RAGDomain is kept as its value split at the dot: <<domain, subdomain>>
SectionSchema(tables, rag_domains, paragraphs, length, mermaid) ==
    [ required_tables      |-> tables,
      required_rag_domains |-> rag_domains,
      min_paragraphs       |-> paragraphs,
      max_length           |-> length,
      requires_mermaid     |-> mermaid ]

\* the values of the registry TAD_SECTION_SCHEMAS
get_section_schema(s) ==
    CASE s = "executive_summary" ->
          SectionSchema(<<>>,
              <<>>,
              3, 1500, FALSE)
      [] s = "context" ->
          SectionSchema(<<"stakeholders">>,
              <<>>,
              2, 2000, FALSE)
      [] s = "functional_requirements" ->
          SectionSchema(<<"functional_requirements">>,
              <<>>,
              1, 3000, FALSE)
      [] s = "non_functional_requirements" ->
          SectionSchema(<<"non_functional_requirements">>,
              <<<<"governance", "security_baseline">>>>,
              1, 3000, FALSE)
      [] s = "constraints" ->
          SectionSchema(<<"constraints">>,
              <<>>,
              1, 1500, FALSE)
      [] s = "assumptions" ->
          SectionSchema(<<>>,
              <<>>,
              1, 1000, FALSE)
      [] s = "risks" ->
          SectionSchema(<<"risks">>,
              <<>>,
              1, 2000, FALSE)
      [] s = "solution_overview" ->
          SectionSchema(<<>>,
              <<<<"architecture", "reference_patterns">>>>,
              3, 2500, TRUE)
      [] s = "component_decomposition" ->
          SectionSchema(<<"components">>,
              <<>>,
              2, 4000, TRUE)
      [] s = "hosting" ->
          SectionSchema(<<"resource_groups", "tags">>,
              <<<<"naming", "resource_groups">>, <<"governance", "tagging">>>>,
              2, 3000, FALSE)
      [] s = "identity_access_management" ->
          SectionSchema(<<"security_groups", "rbac_assignments", "service_principals">>,
              <<<<"naming", "security_groups">>, <<"governance", "rbac">>, <<"architecture", "iam_model">>>>,
              3, 4000, TRUE)
      [] s = "network_configuration" ->
          SectionSchema(<<"vnets", "subnets", "nsgs">>,
              <<<<"naming", "vnets">>, <<"naming", "subnets">>, <<"architecture", "network_segmentation">>>>,
              3, 4000, TRUE)
      [] s = "security_controls" ->
          SectionSchema(<<"security_controls", "encryption">>,
              <<<<"naming", "key_vaults">>, <<"governance", "security_baseline">>>>,
              3, 3500, FALSE)
      [] s = "data_management" ->
          SectionSchema(<<"storage_accounts", "backup_policy">>,
              <<<<"naming", "storage">>>>,
              2, 3000, FALSE)
      [] s = "monitoring_observability" ->
          SectionSchema(<<"monitoring_metrics", "alerts">>,
              <<>>,
              2, 2500, FALSE)
      [] s = "disaster_recovery" ->
          SectionSchema(<<"dr_strategy">>,
              <<>>,
              2, 2500, TRUE)
      [] s = "cost_estimation" ->
          SectionSchema(<<"cost_breakdown">>,
              <<>>,
              1, 2000, FALSE)
      [] s = "deployment_strategy" ->
          SectionSchema(<<"deployment_environments">>,
              <<>>,
              2, 2500, TRUE)
      [] s = "adrs" ->
          SectionSchema(<<>>,
              <<>>,
              1, 5000, FALSE)

\* enum RAGDomain, each value split at the dot
RAGDomain ==
    { <<"naming", "resource_groups">>, <<"naming", "vnets">>,
      <<"naming", "subnets">>, <<"naming", "security_groups">>,
      <<"naming", "key_vaults">>, <<"naming", "storage">>,
      <<"governance", "tagging">>, <<"governance", "rbac">>,
      <<"governance", "security_baseline">>,
      <<"architecture", "network_segmentation">>,
      <<"architecture", "iam_model">>,
      <<"architecture", "reference_patterns">> }

(***************************************************************************)
(* context_normalizer.py                                                   *)
(* A raw input maps each optional field to the state of its value:         *)
(*   "absent"  the key is not in the dict                                  *)
(*   "empty"   the key is present with an empty string                     *)
(*   "value"   the key is present with a non-empty value                   *)
(*   "value_named" (analysis only) a text with a "Project: <name>" line    *)
(*   "number"  the key is present with a non-zero number                   *)
(*   "list"    the key is present with a non-empty list of strings         *)
(***************************************************************************)
optional_fields ==
    << "project_name", "description", "cloud_region", "business_line", "region",
       "environments", "functional_requirements", "non_functional_requirements",
       "constraints", "assumptions", "risks", "stakeholders", "analysis" >>

OptFieldSet == Range(optional_fields)

\* "f in raw"
KeyPresent(r, f) == r[f] # "absent"

\* bool(raw.get(f)): the key is present and its value is not empty
Truthy(r, f) == r[f] \notin {"absent", "empty"}

\* raw.get(f, default) for a string field, as a token of the resulting text
GetOr(r, f, default) ==
    CASE r[f] = "absent" -> default
      [] r[f] = "empty"  -> ""
      [] OTHER           -> "GIVEN"

_normalize_project_info(r) ==
    LET from_analysis ==
            IF r["analysis"] = "value_named" THEN "EXTRACTED" ELSE "Project"
        name0 == IF Truthy(r, "project_name") THEN "GIVEN" ELSE ""
        name1 == IF name0 = "" /\ KeyPresent(r, "analysis")
                 THEN from_analysis ELSE name0
        project_name_raw == IF name1 = "" THEN "Project" ELSE name1
        desc0 == IF Truthy(r, "description") THEN "GIVEN" ELSE ""
        description ==
            IF desc0 = "" /\ KeyPresent(r, "analysis") /\ Truthy(r, "analysis")
            THEN "FROM_ANALYSIS" ELSE desc0
    IN  [ full_name     |-> project_name_raw,
          description   |-> description,
          business_line |-> GetOr(r, "business_line", "GLB"),
          region        |-> GetOr(r, "region", "GLB") ]

_normalize_infrastructure(r) ==
    [ cloud_provider |-> "Azure",
      primary_region |-> GetOr(r, "cloud_region", "North Europe"),
      environments   |->
          CASE r["environments"] = "absent" -> <<"DEV", "PRD", "TST">>
            [] r["environments"] = "empty"  -> <<"">>
            [] OTHER                        -> <<"DEV", "PRD">> ]

total_fields == Len(optional_fields)

\* the weight added to provided_fields when analysis text is present
AnalysisBoost == 5

\* the threshold 0.3 on the score, in tenths
ThresholdTenths == 3

\* a score num/den compared with 0.3
ScoreAtLeastThreshold(score) == 10 * score[1] >= ThresholdTenths * score[2]

has_analysis(r) == Truthy(r, "analysis")

has_any_content(r) ==
    \/ has_analysis(r)
    \/ Truthy(r, "functional_requirements")
    \/ Truthy(r, "non_functional_requirements")

\* is_complete = has_any_content or (no missing field and score >= 0.3)
is_complete_lenient(content, missing_fields, score) ==
    content \/ Len(missing_fields) = 0
\* a variant that accepts on the score alone
is_complete_by_score(content, missing_fields, score) ==
    content \/ ScoreAtLeastThreshold(score)
is_complete_of(content, missing_fields, score) ==
    content \/ (Len(missing_fields) = 0 /\ ScoreAtLeastThreshold(score))

\* sum(1 for f in self.optional_fields if raw.get(f))
ProvidedCountDefaulted(r) ==
    Cardinality({i \in 1..Len(optional_fields) :
        \/ Truthy(r, optional_fields[i])
        \/ /\ r[optional_fields[i]] = "absent"
           /\ optional_fields[i] \in {"project_name", "cloud_region",
                                       "business_line", "region", "environments"}})
ProvidedCount(r) ==
    Cardinality({i \in 1..Len(optional_fields) : Truthy(r, optional_fields[i])})

\* a variant without the cap at 1.0
ScoreOfUncapped(provided, total) == <<provided, Max(1, total)>>
\* min(1.0, provided_fields / max(1, total_fields)) as <<num, den>>
ScoreOf(provided, total) == <<Min(provided, Max(1, total)), Max(1, total)>>

_validate_completeness(r, project, infrastructure) ==
    LET content == has_any_content(r)
        missing_fields ==
            IF content THEN <<>>
            ELSE (IF project.full_name = "" THEN <<"project_name">> ELSE <<>>)
                 \o (IF project.description = "" THEN <<"description">> ELSE <<>>)
                 \o (IF infrastructure.primary_region = ""
                     THEN <<"cloud_region">> ELSE <<>>)
        counted == ProvidedCount(r)
        provided_fields ==
            IF has_analysis(r) THEN counted + AnalysisBoost ELSE counted
        score == ScoreOf(provided_fields, total_fields)
        is_complete == is_complete_of(content, missing_fields, score)
    IN  [ is_complete     |-> is_complete,
          score           |-> score,
          missing_fields  |-> missing_fields,
          provided_fields |-> provided_fields,
          total_fields    |-> total_fields,
          status          |-> IF is_complete THEN "READY" ELSE "INCOMPLETE" ]

normalize(r) ==
    LET project == _normalize_project_info(r)
        infrastructure == _normalize_infrastructure(r)
    IN  [ project        |-> project,
          infrastructure |-> infrastructure,
          completeness   |-> _validate_completeness(r, project, infrastructure) ]

\* a list field: a string is split into its non-blank lines, any other value
\* is kept
ListField(r, f) ==
    CASE r[f] \in {"absent", "empty"} -> <<>>
      [] r[f] = "number"               -> <<"NUMBER">>
      [] OTHER                         -> <<"GIVEN">>

_normalize_requirements(r) ==
    [ functional     |-> ListField(r, "functional_requirements"),
      non_functional |-> ListField(r, "non_functional_requirements"),
      constraints    |-> ListField(r, "constraints"),
      assumptions    |-> ListField(r, "assumptions"),
      risks          |-> ListField(r, "risks") ]

\* "Name (Role), ..." is split on commas; the empty string gives one nameless
\* stakeholder, any value that is not a string is returned as it is
_normalize_stakeholders(r) ==
    CASE r["stakeholders"] = "absent" -> <<>>
      [] r["stakeholders"] = "empty"  -> <<[name |-> "", role |-> "Stakeholder"]>>
      [] r["stakeholders"] = "number" -> <<"NUMBER">>
      [] OTHER -> <<[name |-> "GIVEN", role |-> "Stakeholder"]>>

\* normalize raises: a method of str is called on, or a loop runs over, a value
\* that has no such method or cannot be iterated
NormalizeRaises(r) ==
    \* _extract_acronym: project_name.split()
    \/ r["project_name"] \in {"number", "list"}
    \* re.search on the analysis, analysis_text.split
    \/ /\ r["analysis"] \in {"number", "list"}
       /\ ~Truthy(r, "project_name") \/ ~Truthy(r, "description")
    \* .upper()
    \/ r["business_line"] \in {"number", "list"}
    \/ r["region"] \in {"number", "list"}
    \* "for e in environments"
    \/ r["environments"] = "number"

\* a variant that stamps the completeness with the time of the call
normalize_call_stamped(r, now) ==
    LET c == normalize(r)
    IN  [ project        |-> c.project,
          infrastructure |-> c.infrastructure,
          requirements   |-> _normalize_requirements(r),
          stakeholders   |-> _normalize_stakeholders(r),
          completeness   |-> [c.completeness EXCEPT !.provided_fields = @ + now],
          metadata       |-> [normalized_at |-> now, source |-> "user_input"] ]

\* the dict returned by a call of normalize at time now, with all its keys
normalize_call(r, now) ==
    LET c == normalize(r)
    IN  [ project        |-> c.project,
          infrastructure |-> c.infrastructure,
          requirements   |-> _normalize_requirements(r),
          stakeholders   |-> _normalize_stakeholders(r),
          completeness   |-> c.completeness,
          metadata       |-> [normalized_at |-> now, source |-> "user_input"] ]

\* the value of normalized_context before normalize has run
NoContext ==
    [ project        |-> [full_name |-> "", description |-> "",
                          business_line |-> "", region |-> ""],
      infrastructure |-> [cloud_provider |-> "", primary_region |-> "",
                          environments |-> <<>>],
      completeness   |-> [is_complete |-> FALSE, score |-> <<0, 1>>,
                          missing_fields |-> <<>>, provided_fields |-> 0,
                          total_fields |-> 0, status |-> "NONE"] ]

\* words dropped from a project name before its acronym is built
common_words ==
    { <<"p", "l", "a", "t", "f", "o", "r", "m">>,
      <<"s", "y", "s", "t", "e", "m">>,
      <<"s", "e", "r", "v", "i", "c", "e">>,
      <<"a", "p", "p", "l", "i", "c", "a", "t", "i", "o", "n">>,
      <<"p", "o", "r", "t", "a", "l">> }

\* a variant that keeps the common words
_extract_acronym_unfiltered(name) ==
    LET filtered_words == SplitWords(name)
    IN  IF Len(filtered_words) = 1
        THEN LET word == UpperStr(filtered_words[1])
             IN  IF Len(word) > 3 THEN Take(word, 4) ELSE word
        ELSE Take([i \in 1..Len(filtered_words) |->
                      UpperChar(filtered_words[i][1])], 10)

_extract_acronym(name) ==
    LET words == SplitWords(name)
        kept == SelectSeq(words, LAMBDA w : LowerStr(w) \notin common_words)
        filtered_words == IF kept = <<>> THEN words ELSE kept
    IN  IF Len(filtered_words) = 1
        THEN LET word == UpperStr(filtered_words[1])
             IN  IF Len(word) > 3 THEN Take(word, 4) ELSE word
        ELSE Take([i \in 1..Len(filtered_words) |->
                      UpperChar(filtered_words[i][1])], 10)

\* the words project names are made of
NameWords ==
    { <<"I", "o", "T">>,
      <<"P", "l", "a", "t", "f", "o", "r", "m">>,
      <<"C", "u", "s", "t", "o", "m", "e", "r">>,
      <<"P", "o", "r", "t", "a", "l">>,
      <<"D", "a", "t", "a">>,
      <<"A", "n", "a", "l", "y", "t", "i", "c", "s">>,
      <<"D", "a", "t", "a", "A", "n", "a", "l", "y", "t", "i", "c", "s", "P", "l", "a", "t", "f", "o", "r", "m">>,
      <<"S", "Y", "S", "T", "E", "M">>,
      <<"A", "I">> }

\* names of more than 10 words
LongNames ==
    { <<"a", " ", "b", " ", "c", " ", "d", " ", "e", " ", "f", " ", "g", " ", "h", " ", "i", " ", "j", " ", "k", " ", "P", "l", "a", "t", "f", "o", "r", "m">>,
      <<"P", "o", "r", "t", "a", "l", " ", "a", " ", "b", " ", "c", " ", "d", " ", "e", " ", "f", " ", "g", " ", "h", " ", "i", " ", "j">> }

\* the project names handed to _extract_acronym: up to MaxWords words
ProjectNames ==
    LongNames
    \cup UNION { { Join(ws, <<" ">>) : ws \in [1..n -> NameWords] } : n \in 0..MaxWords }

\* a raw input in which the fields of V hold a value, those of E are empty
Request(V, E) ==
    [f \in OptFieldSet |->
        IF f \in V THEN "value" ELSE IF f \in E THEN "empty" ELSE "absent"]

\* a raw input with the keys of P present in the states st; named: the
\* analysis text holds a "Project: <name>" line
RawInput(P, st, named) ==
    [f \in OptFieldSet |->
        IF f \notin P THEN "absent"
        ELSE IF f = "analysis" /\ st[f] = "value" /\ named
             THEN "value_named" ELSE st[f]]

\* the outcome of a call of normalize: the exception or the returned dict
NormalizeOutcome(r, now) ==
    IF NormalizeRaises(r)
    THEN [raised |-> TRUE, context |-> normalize_call(Request({}, {}), 0)]
    ELSE [raised |-> FALSE, context |-> normalize_call(r, now)]

\* the requests submitted to generate_tad in the pipeline specification
PipelineRequests ==
    { Request({}, {}),
      Request({"description"}, {}),
      Request({}, {"cloud_region"}),
      Request({"functional_requirements"}, {}),
      Request({"project_name", "description", "cloud_region", "environments"}, {}) }

(***************************************************************************)
(* structured_rag_retriever.py: the taxonomy and the summary               *)
(***************************************************************************)
RagEntries ==
    << "naming_conventions.resource_groups", "naming_conventions.vnets",
       "naming_conventions.subnets", "naming_conventions.security_groups",
       "naming_conventions.key_vaults", "naming_conventions.storage",
       "governance.tagging", "governance.rbac", "governance.security_baseline",
       "architecture.network_segmentation", "architecture.iam_model",
       "architecture.reference_patterns" >>

Taxonomy == Range(RagEntries)

\* self.rag_queries: the query text of each taxonomy entry, as its words
rag_queries(e) ==
    CASE e = "naming_conventions.resource_groups" ->
             <<"resource", "group", "naming", "convention", "private", "paas", "RG", "pattern", "GCCC">>
      [] e = "naming_conventions.vnets" ->
             <<"virtual", "network", "vnet", "naming", "convention", "pattern", "azure">>
      [] e = "naming_conventions.subnets" ->
             <<"subnet", "naming", "convention", "pattern", "network">>
      [] e = "naming_conventions.security_groups" ->
             <<"entra", "id", "security", "group", "naming", "convention", "pattern", "azure", "ad">>
      [] e = "naming_conventions.key_vaults" ->
             <<"key", "vault", "naming", "convention", "pattern", "secrets">>
      [] e = "naming_conventions.storage" ->
             <<"storage", "account", "naming", "convention", "pattern", "blob">>
      [] e = "governance.tagging" ->
             <<"azure", "tagging", "policy", "standard", "mandatory", "tags", "governance">>
      [] e = "governance.rbac" ->
             <<"role", "based", "access", "control", "rbac", "model", "azure", "permissions">>
      [] e = "governance.security_baseline" ->
             <<"security", "baseline", "standards", "controls", "compliance", "azure">>
      [] e = "architecture.network_segmentation" ->
             <<"network", "segmentation", "hub", "spoke", "topology", "vnet", "peering">>
      [] e = "architecture.iam_model" ->
             <<"identity", "access", "management", "model", "entra", "id", "azure", "ad", "authentication">>
      [] e = "architecture.reference_patterns" ->
             <<"reference", "architecture", "pattern", "best", "practices", "azure">>

\* the keywords of _infer_project_type, in the order they are tried, each
\* list with the project type it stands for
ProjectTypeKeywords ==
    << <<{<<"i", "o", "t">>, <<"i", "n", "t", "e", "r", "n", "e", "t", " ", "o", "f", " ", "t", "h", "i", "n", "g", "s">>, <<"s", "e", "n", "s", "o", "r">>, <<"d", "e", "v", "i", "c", "e">>},
         <<"iot", "platform">>>>,
       <<{<<"d", "a", "t", "a">>, <<"a", "n", "a", "l", "y", "t", "i", "c", "s">>, <<"b", "i">>, <<"w", "a", "r", "e", "h", "o", "u", "s", "e">>, <<"l", "a", "k", "e">>},
         <<"data", "analytics">>>>,
       <<{<<"w", "e", "b">>, <<"p", "o", "r", "t", "a", "l">>, <<"w", "e", "b", "s", "i", "t", "e">>, <<"f", "r", "o", "n", "t", "e", "n", "d">>},
         <<"web", "application">>>>,
       <<{<<"a", "p", "i">>, <<"m", "i", "c", "r", "o", "s", "e", "r", "v", "i", "c", "e">>, <<"s", "e", "r", "v", "i", "c", "e">>},
         <<"microservices">>>>,
       <<{<<"m", "o", "b", "i", "l", "e">>, <<"a", "p", "p">>},
         <<"mobile", "application">>>>,
       <<{<<"a", "i">>, <<"m", "l">>, <<"m", "a", "c", "h", "i", "n", "e", " ", "l", "e", "a", "r", "n", "i", "n", "g">>, <<"a", "r", "t", "i", "f", "i", "c", "i", "a", "l", " ", "i", "n", "t", "e", "l", "l", "i", "g", "e", "n", "c", "e">>},
         <<"ai", "ml", "platform">>>> >>

\* the first project type with a keyword that occurs in the lower-cased
\* "<full_name> <description>", or "cloud application"
_infer_project_type(ctx) ==
    LET combined_text == LowerStr(ctx.project.full_name) \o <<" ">>
                         \o LowerStr(ctx.project.description)
        hits == {i \in 1..Len(ProjectTypeKeywords) :
                    \E keyword \in ProjectTypeKeywords[i][1] :
                        Contains(combined_text, keyword)}
    IN  IF hits = {} THEN <<"cloud", "application">>
        ELSE ProjectTypeKeywords[CHOOSE i \in hits : \A j \in hits : i <= j][2]

\* str.replace(old, new) on a text kept as its words: old has no space and
\* stands in a text as a word of its own
RECURSIVE str_replace(_, _, _)
str_replace(words, old, new) ==
    IF words = <<>> THEN <<>>
    ELSE (IF Head(words) = old THEN new ELSE <<Head(words)>>)
         \o str_replace(Tail(words), old, new)

\* the query text handed to generate_embedding and hybrid_search for entry e
QueryText(e, ctx) ==
    IF e = "architecture.reference_patterns"
    THEN str_replace(rag_queries(e), "{project_type}", _infer_project_type(ctx))
    ELSE rag_queries(e)

\* a normalized context with the given full name and description
ContextOfProject(full_name, description) ==
    [NoContext EXCEPT !.project.full_name = full_name,
                      !.project.description = description]

\* the contexts handed to retrieve_all when it runs on its own
RagContexts ==
    { ContextOfProject(<<"I", "o", "T", " ", "P", "l", "a", "t", "f", "o", "r", "m">>, <<>>),
      ContextOfProject(<<"C", "u", "s", "t", "o", "m", "e", "r", " ", "P", "o", "r", "t", "a", "l">>,
                       <<"W", "e", "b", " ", "f", "r", "o", "n", "t", "e", "n", "d">>),
      ContextOfProject(<<"P", "a", "y", "r", "o", "l", "l">>, <<"H", "R">>) }

\* what the retrieval collaborator does for each query of a run
SearchScenarios ==
    { [e \in Taxonomy |-> "hit"],
      [e \in Taxonomy |->
          CASE e = "naming_conventions.resource_groups" -> "error"
            [] e \in {"governance.tagging", "governance.rbac",
                      "governance.security_baseline"} -> "empty"
            [] OTHER -> "hit"] }

\* the entry stored for one taxonomy query
RetrieveEntrySilent(outcome) ==
    CASE outcome = "hit" -> [found |-> TRUE, chunks |-> <<"chunk">>, error |-> ""]
      [] OTHER           -> [found |-> FALSE, chunks |-> <<>>, error |-> ""]
RetrieveEntry(outcome) ==
    CASE outcome = "hit"   ->
             [found |-> TRUE, chunks |-> <<"chunk">>, error |-> ""]
      [] outcome = "empty" ->
             [found |-> FALSE, chunks |-> <<>>,
              error |-> "not found in AI Search index"]
      [] OTHER             ->
             [found |-> FALSE, chunks |-> <<>>, error |-> "exception"]

retrieve_all(scenario) == [e \in Taxonomy |-> RetrieveEntry(scenario[e])]

NoRagData == [e \in Taxonomy |-> [found |-> FALSE, chunks |-> <<>>, error |-> "none"]]

\* "Calculate metadata": the counters stored under rag_data["metadata"]
query_metadata(rd) ==
    LET total == Cardinality(DOMAIN rd)
        successful == Cardinality({e \in DOMAIN rd : rd[e].found})
    IN  [ total_queries      |-> total,
          successful_queries |-> successful,
          failed_queries     |-> total - successful ]

\* the metadata retrieve_all starts from
NoMetadata == [total_queries |-> 0, successful_queries |-> 0, failed_queries |-> 0]

get_rag_summary(rd) ==
    LET found == SelectSeq(RagEntries, LAMBDA e : rd[e].found)
        missing == SelectSeq(RagEntries, LAMBDA e : ~rd[e].found)
        total == Len(RagEntries)
    IN  [ found          |-> found,
          missing        |-> missing,
          \* found / total, as <<num, den>>; 0.0 when total = 0
          coverage_score |-> IF total > 0 THEN <<Len(found), total>> ELSE <<0, 1>> ]

(***************************************************************************)
(* reviewer_agent.py: the shape of a validation result                     *)
(***************************************************************************)
Upper(sev) ==
    CASE sev = "critical" -> "CRITICAL"
      [] sev = "major"    -> "MAJOR"
      [] sev = "minor"    -> "MINOR"
      [] OTHER            -> sev

Issue(sev, desc) == [severity |-> sev, description |-> desc]

\* [i for i in issues if i["severity"] == "critical"]
CriticalOf(issues) == SelectSeq(issues, LAMBDA i : i.severity = "critical")

\* valid = no critical issue and score >= 0.6 (scores in hundredths)
ReviewValid(issues, score) == Len(CriticalOf(issues)) = 0 /\ score >= 60

Validation(issues, score, recs) ==
    [ valid           |-> ReviewValid(issues, score),
      score           |-> score,
      issues          |-> issues,
      recommendations |-> recs ]

CleanValidation == Validation(<<>>, 90, <<>>)

\* the results validate_section returns in the model
ReviewerOutputs ==
    { CleanValidation,
      Validation(<<Issue("minor", "exceeds maximum length")>>, 80, <<"tighten">>),
      Validation(<<Issue("major", "insufficient paragraphs")>>, 50, <<"expand">>),
      Validation(<<Issue("critical", "section too short")>>, 70, <<"add detail">>),
      Validation(<<Issue("critical", "required table not found"),
                   Issue("major", "no source citations"),
                   Issue("critical", "rag domain not stated")>>, 30, <<>>) }

NoValidation == [valid |-> FALSE, score |-> 0, issues |-> <<>>,
                 recommendations |-> <<>>]

(***************************************************************************)
(* reviewer_agent.py: validate_section                                     *)
(* A text under review is kept by what the automated checks read in it:    *)
(*   length            len(content)                                        *)
(*   paragraphs        blocks between blank lines that are not headings    *)
(*   has_table         the markdown table pattern occurs                   *)
(*   has_mermaid       "```mermaid" occurs                                 *)
(*   states_not_found  "not found in ai search index" occurs               *)
(*   generic_phrases   how many of the five generic phrases occur          *)
(*   has_citation      "source:" occurs                                    *)
(* Scores are in hundredths.                                               *)
(***************************************************************************)
Text(len, paragraphs, table, mermaid, stated, generic, citation) ==
    [ length           |-> len,
      paragraphs       |-> paragraphs,
      has_table        |-> table,
      has_mermaid      |-> mermaid,
      states_not_found |-> stated,
      generic_phrases  |-> generic,
      has_citation     |-> citation ]

NoText == Text(0, 0, FALSE, FALSE, FALSE, 0, FALSE)

\* lengths around the minimum length and around the maximum lengths
ContentLengths == {400, 500, 1500, 1501, 5001}

SectionContents ==
    { Text(len, par, tb, mm, st, gp, ct) :
        len \in ContentLengths, par \in 0..MaxParagraphs, tb \in BOOLEAN,
        mm \in BOOLEAN, st \in BOOLEAN, gp \in 0..MaxGeneric, ct \in BOOLEAN }

\* an issue raised by the automated checks; about names the table or domain
AutoIssue(category, sev, desc, location, about) ==
    [ category |-> category, severity |-> sev, description |-> desc,
      location |-> location, about |-> about ]

\* rag_data.get(domain, {}).get(subdomain, {}) read with .get("found") and
\* .get("error", "Not found"): rag_data holds one entry per taxonomy key
\* "<domain>.<subdomain>"
rag_lookup(rd, d) ==
    LET key == d[1] \o "." \o d[2]
    IN  IF key \in DOMAIN rd
        THEN rd[key]
        ELSE [found |-> FALSE, error |-> "Not found"]

\* Check 6 reads the required domain as missing
DomainUnstated(c, rd, d) == ~rag_lookup(rd, d).found /\ ~c.states_not_found

\* Check 1: "if len(content) < 500"
TooShortLenient(c) == c.length < 400
TooShort(c) == c.length < 500

_automated_validation(c, sch, rd) ==
    LET too_short  == TooShort(c)
        too_long   == c.length > sch.max_length
        few        == c.paragraphs < sch.min_paragraphs
        no_table   == Len(sch.required_tables) > 0 /\ ~c.has_table
        no_mermaid == sch.requires_mermaid /\ ~c.has_mermaid
        unstated   == SelectSeq(sch.required_rag_domains,
                                LAMBDA d : DomainUnstated(c, rd, d))
        no_source  == Len(sch.required_rag_domains) > 0 /\ ~c.has_citation
        issues ==
            (IF too_short
             THEN <<AutoIssue("structural", "critical", "Section too short",
                              "overall", "")>>
             ELSE <<>>)
            \o (IF too_long
                THEN <<AutoIssue("structural", "minor",
                                 "Section exceeds maximum length", "overall", "")>>
                ELSE <<>>)
            \o (IF few
                THEN <<AutoIssue("structural", "major", "Insufficient paragraphs",
                                 "overall", "")>>
                ELSE <<>>)
            \o (IF no_table
                THEN <<AutoIssue("structural", "critical",
                                 "Required table not found", "tables",
                                 sch.required_tables[1])>>
                ELSE <<>>)
            \o (IF no_mermaid
                THEN <<AutoIssue("structural", "major",
                                 "Required Mermaid diagram not found",
                                 "diagrams", "")>>
                ELSE <<>>)
            \o [i \in 1..Len(unstated) |->
                   AutoIssue("rag", "critical",
                             "RAG domain not found, but section doesn't state this explicitly",
                             "rag_compliance", unstated[i][1] \o "." \o unstated[i][2])]
            \o (IF no_source
                THEN <<AutoIssue("rag", "major", "No source citations found",
                                 "citations", "")>>
                ELSE <<>>)
        recommendations ==
            [i \in 1..c.generic_phrases |-> "Generic phrase detected"]
        penalties ==
            (IF too_short THEN 30 ELSE 0) + (IF too_long THEN 10 ELSE 0)
            + (IF few THEN 20 ELSE 0) + (IF no_table THEN 20 ELSE 0)
            + (IF no_mermaid THEN 15 ELSE 0) + 25 * Len(unstated)
            + 5 * c.generic_phrases + (IF no_source THEN 15 ELSE 0)
        score == Max(0, Min(100, 100 - penalties))
    IN  [ valid           |-> Len(CriticalOf(issues)) = 0 /\ score >= 60,
          score           |-> score,
          issues          |-> issues,
          recommendations |-> recommendations ]

\* the early return of validate_section on critical automated issues
AutomatedOnly(automated) ==
    [ valid             |-> FALSE,
      score             |-> automated.score,
      issues            |-> automated.issues,
      recommendations   |-> automated.recommendations,
      validation_method |-> "automated" ]

\* The reply of the chat completion, by what the parser reads in it:
\*   readable    message.content is a string (None otherwise)
\*   pass        "PASS" occurs in the text
\*   score_line  "absent": no SCORE line; "malformed": the digits and dots
\*               after SCORE: are no number, as in 1.2.3; "given": a number
\*   score       the number of the SCORE line, in hundredths
\*   issues      the parsable lines "- [SEVERITY] description" under ISSUES:
\*   recommendations  the lines "- text" under RECOMMENDATIONS:
LlmText(pass, score_line, score, issues, recs) ==
    [ readable |-> TRUE, pass |-> pass, score_line |-> score_line,
      score |-> score, issues |-> issues, recommendations |-> recs ]

NoLlmText == [ readable |-> FALSE, pass |-> FALSE, score_line |-> "absent",
               score |-> 0, issues |-> <<>>, recommendations |-> <<>> ]

\* what the chat completion call did: nothing yet, raised, or a reply
NoLlmResponse == [kind |-> "none", text |-> NoLlmText]

IssueLine(tag, desc) == [tag |-> tag, description |-> desc]

\* the replies of the chat completion in the model
LlmTexts ==
    { LlmText(TRUE, "given", 100, <<>>, <<>>),
      LlmText(TRUE, "given", 60, <<IssueLine("MINOR", "wording")>>, <<"reword">>),
      LlmText(FALSE, "given", 0, <<IssueLine("CRITICAL", "unusable")>>, <<>>),
      LlmText(FALSE, "given", 45, <<IssueLine("Minor", "thin")>>, <<"expand">>),
      LlmText(TRUE, "given", 100, <<IssueLine("Critical", "invented policy")>>, <<>>),
      LlmText(TRUE, "given", 150, <<>>, <<>>),
      LlmText(TRUE, "absent", 0, <<>>, <<"cite sources">>),
      LlmText(FALSE, "absent", 0, <<IssueLine("MAJOR", "unclear flow")>>, <<>>),
      LlmText(FALSE, "malformed", 0, <<IssueLine("CRITICAL", "unusable")>>, <<"redo">>),
      LlmText(FALSE, "given", 40, <<IssueLine("HIGH", "invented subnet ranges")>>, <<>>),
      NoLlmText }

\* match.group(1).lower()
Lower(tag) ==
    CASE tag \in {"CRITICAL", "Critical", "critical"} -> "critical"
      [] tag \in {"MAJOR", "Major", "major"}          -> "major"
      [] tag \in {"MINOR", "Minor", "minor"}          -> "minor"
      [] tag \in {"HIGH", "High", "high"}             -> "high"
      [] OTHER                                        -> tag

\* the result both except clauses fall back to
NeutralValidationFailing(recs) ==
    [valid |-> FALSE, score |-> 0, issues |-> <<>>, recommendations |-> recs]
NeutralValidation(recs) ==
    [valid |-> TRUE, score |-> 70, issues |-> <<>>, recommendations |-> recs]

\* the score given to a reply without a SCORE line
DefaultLlmScore == 70

\* float() or a str method raises inside the try: the except clause answers
ParseFails(text) == ~text.readable \/ text.score_line = "malformed"

_parse_llm_validation_response(text) ==
    IF ParseFails(text)
    THEN NeutralValidation(<<>>)
    ELSE [ valid  |-> text.pass,
           score  |-> IF text.score_line = "given" THEN text.score
                      ELSE DefaultLlmScore,
           issues |-> [i \in 1..Len(text.issues) |->
                          AutoIssue("content", Lower(text.issues[i].tag),
                                    text.issues[i].description, "general", "")],
           recommendations |-> text.recommendations ]

\* _llm_validation when the chat completion call raises
LlmFailure == NeutralValidation(<<"LLM validation could not be completed.">>)

\* automated["score"] * 0.6 + llm["score"] * 0.4; exact for the scores of the
\* model, which are multiples of 0.05
CombinedScoreEven(a, m) == (5 * a + 5 * m) \div 10
CombinedScore(a, m) == (6 * a + 4 * m) \div 10

\* a variant in which both phases must have passed on their own
_combine_validations_verdicts(automated, llm) ==
    LET all_issues == automated.issues \o llm.issues
        combined_score == CombinedScore(automated.score, llm.score)
    IN  [ valid             |-> /\ Len(CriticalOf(all_issues)) = 0
                                /\ combined_score >= 60
                                /\ automated.valid
                                /\ llm.valid,
          score             |-> combined_score,
          issues            |-> all_issues,
          recommendations   |-> automated.recommendations \o llm.recommendations,
          validation_method |-> "combined",
          automated_score   |-> automated.score,
          llm_score         |-> llm.score ]

_combine_validations(automated, llm) ==
    LET all_issues == automated.issues \o llm.issues
        combined_score == CombinedScore(automated.score, llm.score)
    IN  [ valid             |-> Len(CriticalOf(all_issues)) = 0
                                /\ combined_score >= 60,
          score             |-> combined_score,
          issues            |-> all_issues,
          recommendations   |-> automated.recommendations \o llm.recommendations,
          validation_method |-> "combined",
          automated_score   |-> automated.score,
          llm_score         |-> llm.score ]

(***************************************************************************)
(* writer_agent.py: the feedback block of the user prompt                  *)
(***************************************************************************)
NoFeedback == [present |-> FALSE, issues |-> <<>>, recommendations |-> <<>>]

_format_feedback(fb) ==
    (IF Len(fb.issues) > 0
     THEN <<<<"head", "Issues to fix:", "">>>>
          \o [i \in 1..Len(fb.issues) |->
                 <<"issue", Upper(fb.issues[i].severity), fb.issues[i].description>>]
     ELSE <<>>)
    \o
    (IF Len(fb.recommendations) > 0
     THEN <<<<"head", "Recommendations:", "">>>>
          \o [i \in 1..Len(fb.recommendations) |->
                 <<"rec", fb.recommendations[i], "">>]
     ELSE <<>>)

\* feedback_context of _build_user_prompt: empty unless feedback is given
FeedbackContext(fb) ==
    IF fb.present
    THEN <<<<"head", "FEEDBACK FROM PREVIOUS ATTEMPT:", "">>>> \o _format_feedback(fb)
    ELSE <<>>

\* _format_rag_context_for_section: one block per required domain, with the
\* status line the prompt shows and the chunks or the error under it
_format_rag_context_for_section(sch, rd) ==
    [i \in 1..Len(sch.required_rag_domains) |->
        LET d == sch.required_rag_domains[i]
            domain_data == rag_lookup(rd, d)
        IN  IF domain_data.found
            THEN [domain |-> d, status |-> "FOUND", chunks |-> TRUE, error |-> ""]
            ELSE [domain |-> d, status |-> "NOT FOUND", chunks |-> FALSE,
                  error |-> domain_data.error]]

\* the text returned by Writer call number n for section s
WriterText(s, n) == [kind |-> "writer", section |-> s, attempt |-> n, issues |-> <<>>]

NoContent == [kind |-> "none", section |-> "", attempt |-> 0, issues |-> <<>>]

(***************************************************************************)
(* naming_service.py                                                       *)
(* Strings are sequences of characters. A chunk of the index is kept by    *)
(* what the service reads in its content:                                  *)
(*   relevant         one of "resource group", "rg##", "rg01", "naming     *)
(*                    convention" occurs (the filter of the search)        *)
(*   has_pattern      the {..}-{..}-{..}-{..}-{..}-RG## pattern occurs      *)
(*   has_description  "business line", "cloud region" and "rg" occur       *)
(*   cloud_regions    the <<code, description>> pairs the cloud region      *)
(*                    expression finds                                     *)
(*   business_lines, regions, environments   the codes the other           *)
(*                    expressions find                                     *)
(***************************************************************************)
\* Python None, and a key that is not in a dict
None == <<"None">>
Absent == <<"absent">>

IsStr(v) == v # None /\ v # Absent

azure_region_fallback ==
    << <<<<"n", "o", "r", "t", "h", " ", "e", "u", "r", "o", "p", "e">>,
          <<"I", "E", "N", "O">>>>,
       <<<<"w", "e", "s", "t", " ", "e", "u", "r", "o", "p", "e">>,
          <<"N", "L", "W", "E">>>>,
       <<<<"e", "a", "s", "t", " ", "u", "s">>,
          <<"U", "S", "E", "A">>>>,
       <<<<"w", "e", "s", "t", " ", "u", "s">>,
          <<"U", "S", "W", "E">>>>,
       <<<<"c", "e", "n", "t", "r", "a", "l", " ", "u", "s">>,
          <<"U", "S", "C", "E">>>>,
       <<<<"u", "k", " ", "s", "o", "u", "t", "h">>,
          <<"U", "K", "S", "O">>>>,
       <<<<"f", "r", "a", "n", "c", "e", " ", "c", "e", "n", "t", "r", "a", "l">>,
          <<"F", "R", "C", "E">>>> >>

Chunk(title, relevant, pattern, described, cloud, lines, regs, envs) ==
    [ title           |-> title,
      relevant        |-> relevant,
      has_pattern     |-> pattern,
      has_description |-> described,
      cloud_regions   |-> cloud,
      business_lines  |-> lines,
      regions         |-> regs,
      environments    |-> envs ]

\* the policy document: pattern, examples and code tables
PolicyChunk ==
    Chunk("GCCC-POL-Naming-Convention-Policy.pdf", TRUE, TRUE, TRUE,
          << <<<<"I", "E", "N", "O">>, <<"I", "r", "e", "l", "a", "n", "d">>>>,
             <<<<"N", "L", "W", "E">>, <<"N", "e", "t", "h", "e", "r", "l", "a", "n", "d", "s">>>> >>,
          {<<"G", "L", "B">>, <<"O", "S", "S">>}, {<<"G", "L", "B">>, <<"N", "A", "M">>},
          {<<"P", "R", "D">>, <<"D", "E", "V">>, <<"T", "S", "T">>})

\* a text that describes the pattern in words and lists one cloud region
DescribedChunk ==
    Chunk("GCCC-Cloud-Regions.pdf", TRUE, FALSE, TRUE,
          << <<<<"D", "E", "W", "C">>, <<"G", "e", "r", "m", "a", "n", "y", " ", "W", "e", "s", "t", " ", "C", "e", "n", "t", "r", "a", "l">>>> >>,
          {}, {}, {})

\* a text about resource groups without pattern, description or codes
ReferencesChunk ==
    Chunk("GCCC-POL-Naming-Convention-References.pdf", TRUE, FALSE, FALSE,
          <<>>, {}, {}, {})

\* a text that holds none of the keywords of the filter
OffTopicChunk ==
    Chunk("Tagging-Policy.pdf", FALSE, FALSE, FALSE, <<>>, {}, {}, {})

ChunkKinds == {PolicyChunk, DescribedChunk, ReferencesChunk, OffTopicChunk}

\* what generate_embedding and hybrid_search do for the naming query
SearchOutcomes ==
    { [raises |-> TRUE, results |-> <<>>] }
    \cup { [raises |-> FALSE, results |-> r] :
             r \in UNION { [1..n -> ChunkKinds] : n \in 0..MaxChunks } }

NoSearch == [raises |-> FALSE, results |-> <<>>]

search_naming_convention_for_resource_groups(outcome) ==
    IF outcome.raises THEN <<>>
    ELSE Take(SelectSeq(outcome.results, LAMBDA c : c.relevant), 5)

NoPatternInfo == [found |-> FALSE, pattern |-> "", source |-> [file |-> ""]]

RgPattern == "{Business Line}-{Region}-{Cloud Region}-{Project}-{Environment}-RG##"

extract_rg_naming_pattern(chunks) ==
    LET exact == SelectSeq(chunks, LAMBDA c : c.has_pattern)
        described == SelectSeq(chunks, LAMBDA c : c.has_description)
    IN  IF chunks = <<>> THEN NoPatternInfo
        ELSE IF exact # <<>>
        THEN [found |-> TRUE, pattern |-> RgPattern,
              source |-> [file |-> exact[1].title]]
        ELSE IF described # <<>>
        THEN [found |-> TRUE, pattern |-> RgPattern,
              source |-> [file |-> described[1].title]]
        ELSE NoPatternInfo

\* d.update(pairs): a later pair replaces the description of its code
RECURSIVE DictUpdate(_, _)
DictUpdate(d, pairs) ==
    IF pairs = <<>> THEN d
    ELSE DictUpdate(DictSet(d, pairs[1][1], pairs[1][2]), Tail(pairs))

RECURSIVE CloudRegionCodes(_)
CloudRegionCodes(chunks) ==
    IF chunks = <<>> THEN <<>>
    ELSE DictUpdate(CloudRegionCodes(SubSeq(chunks, 1, Len(chunks) - 1)),
                    chunks[Len(chunks)].cloud_regions)

OrDefault(found, default) == IF found = {} THEN default ELSE found

extract_naming_codes(chunks) ==
    [ business_lines |->
          OrDefault(UNION {chunks[i].business_lines : i \in 1..Len(chunks)},
                    {<<"G", "L", "B">>}),
      regions |->
          OrDefault(UNION {chunks[i].regions : i \in 1..Len(chunks)},
                    {<<"G", "L", "B">>}),
      cloud_regions |-> CloudRegionCodes(chunks),
      environments |->
          OrDefault(UNION {chunks[i].environments : i \in 1..Len(chunks)},
                    {<<"P", "R", "D">>, <<"D", "E", "V">>, <<"T", "S", "T">>}) ]

map_azure_region_to_sodexo_code(azure_region, extracted_codes) ==
    LET azure_region_lower == Strip(LowerStr(azure_region))
        hits == SelectSeq(extracted_codes,
                          LAMBDA e : Contains(LowerStr(e[2]), azure_region_lower))
    IN  IF hits # <<>> THEN hits[1][1]
        ELSE IF DictHas(azure_region_fallback, azure_region_lower)
        THEN DictGet(azure_region_fallback, azure_region_lower)
        ELSE None

\* requirements.get(key, default)
ReqGet(req, key, default) == IF req[key] = Absent THEN default ELSE req[key]

RgError(error, source, executed, found) ==
    [ error      |-> error,
      name       |-> None,
      source     |-> source,
      validation |-> [ rag_query_executed      |-> executed,
                       naming_convention_found |-> found,
                       all_codes_validated     |-> FALSE ] ]

NoSource == [file |-> "None"]

generate_resource_group_name(req, outcome) ==
    LET chunks == search_naming_convention_for_resource_groups(outcome)
        pattern_info == extract_rg_naming_pattern(chunks)
        codes == extract_naming_codes(chunks)
        project == ReqGet(req, "project_name", <<"P", "R", "O", "J", "E", "C", "T">>)
        business_line == ReqGet(req, "business_line", <<"G", "L", "B">>)
        region == ReqGet(req, "region", <<"G", "L", "B">>)
        cloud_region == ReqGet(req, "cloud_region", <<"N", "o", "r", "t", "h", " ", "E", "u", "r", "o", "p", "e">>)
        environment == ReqGet(req, "environment", <<"P", "R", "D">>)
        \* .upper() and .lower() of a value that is not a str
        raises == \E v \in {project, business_line, region, environment,
                            cloud_region} : ~IsStr(v)
        cloud_region_code ==
            map_azure_region_to_sodexo_code(cloud_region, codes.cloud_regions)
        validation_errors ==
            (IF UpperStr(business_line) \notin codes.business_lines
                /\ UpperStr(business_line) # <<"G", "L", "B">>
             THEN <<"Business line not found in extracted codes">> ELSE <<>>)
            \o (IF UpperStr(region) \notin codes.regions
                   /\ UpperStr(region) # <<"G", "L", "B">>
                THEN <<"Region not found in extracted codes">> ELSE <<>>)
            \o (IF UpperStr(environment) \notin codes.environments
                THEN <<"Environment not found in extracted codes">> ELSE <<>>)
    IN  IF chunks = <<>>
        THEN RgError("Resource Group naming convention not found in AI Search index",
                     NoSource, TRUE, FALSE)
        ELSE IF ~pattern_info.found
        THEN RgError("Could not extract Resource Group naming pattern from retrieved documents",
                     NoSource, TRUE, FALSE)
        ELSE IF raises
        THEN RgError("Error generating Resource Group name: {str(e)}",
                     NoSource, FALSE, FALSE)
        ELSE IF cloud_region_code = None
        THEN RgError("Could not map Azure region '{cloud_region}' to Sodexo cloud region code",
                     pattern_info.source, TRUE, TRUE)
        ELSE [ name       |-> Join(<< UpperStr(business_line), UpperStr(region),
                                      cloud_region_code, UpperStr(project),
                                      UpperStr(environment), <<"R", "G", "0", "1">> >>, <<"-">>),
               pattern    |-> pattern_info.pattern,
               components |->
                   [ business_line |-> UpperStr(business_line),
                     region        |-> UpperStr(region),
                     cloud_region  |-> cloud_region_code,
                     project       |-> UpperStr(project),
                     environment   |-> UpperStr(environment),
                     suffix        |-> <<"R", "G", "0", "1">> ],
               source     |-> pattern_info.source,
               validation |->
                   [ rag_query_executed      |-> TRUE,
                     naming_convention_found |-> TRUE,
                     all_codes_validated     |-> validation_errors = <<>>,
                     validation_errors       |-> validation_errors ] ]

NoRgResult == RgError("", NoSource, FALSE, FALSE)

\* the arguments generate_resource_group_name is called with; the project is
\* an acronym built by _extract_acronym or is None
RgRequirements ==
    [ project_name  : {<<"I", "O", "T">>,
                       _extract_acronym(<<"D", "a", "t", "a", " ", "A", "n", "a", "l", "y", "t", "i", "c", "s", " ", "P", "l", "a", "t", "f", "o", "r", "m">>),
                       None},
      cloud_region  : {<<"N", "o", "r", "t", "h", " ", "E", "u", "r", "o", "p", "e">>,
                       <<"G", "e", "r", "m", "a", "n", "y", " ", "W", "e", "s", "t", " ", "C", "e", "n", "t", "r", "a", "l">>,
                       <<"M", "a", "r", "s", " ", "R", "e", "g", "i", "o", "n">>,
                       <<>>, None},
      environment   : {<<"P", "R", "D">>, <<"d", "e", "v">>, <<"Q", "A", "S">>},
      business_line : {Absent, <<"O", "S", "S">>},
      region        : {Absent, <<"N", "A", "M">>} ]

NoRequirements ==
    [ project_name |-> Absent, cloud_region |-> Absent, environment |-> Absent,
      business_line |-> Absent, region |-> Absent ]

\* re.match of the name against
\* ^[A-Z]{3}-[A-Z]{3}-[A-Z]{4}-[A-Z]{3,10}-[A-Z]{3}-RG\d{2}$
UpperRun(seg, lo, hi) ==
    /\ Len(seg) >= lo
    /\ Len(seg) <= hi
    /\ \A i \in 1..Len(seg) : seg[i] \in Range(UpperLetters)

MatchesRgPattern(n) ==
    LET \* "$" also matches before a newline that ends the string
        body == IF n # <<>> /\ n[Len(n)] = "\n" THEN SubSeq(n, 1, Len(n) - 1) ELSE n
        segs == SplitOn(body, {"-"})
    IN  /\ Len(segs) = 6
        /\ UpperRun(segs[1], 3, 3)
        /\ UpperRun(segs[2], 3, 3)
        /\ UpperRun(segs[3], 4, 4)
        /\ UpperRun(segs[4], 3, 10)
        /\ UpperRun(segs[5], 3, 3)
        /\ Len(segs[6]) = 4
        /\ SubSeq(segs[6], 1, 2) = <<"R", "G">>
        /\ segs[6][3] \in Digits
        /\ segs[6][4] \in Digits

validate_resource_group_name(n) ==
    LET segments == SplitOn(n, {"-"})
    IN  IF ~IsStr(n)
        THEN [valid |-> FALSE, error |-> "Validation error: {str(e)}"]
        ELSE IF ~MatchesRgPattern(n)
        THEN [valid |-> FALSE, error |-> "Name does not match Sodexo GCCC pattern"]
        ELSE IF Len(segments) # 6
        THEN [ valid |-> FALSE,
               error |-> "Expected 6 segments, found {len(segments)}",
               segments |-> segments ]
        ELSE IF ~StartsWith(segments[6], <<"R", "G">>)
        THEN [ valid |-> FALSE,
               error |-> "Last segment must start with 'RG'",
               found |-> segments[6] ]
        ELSE [ valid |-> TRUE,
               segments |-> [ business_line |-> segments[1],
                              region        |-> segments[2],
                              cloud_region  |-> segments[3],
                              project       |-> segments[4],
                              environment   |-> segments[5],
                              suffix        |-> segments[6] ] ]

NoNameValidation == [valid |-> FALSE, error |-> ""]

\* the segments of a name that follows the convention
ValidSegments ==
    << <<"G", "L", "B">>, <<"G", "L", "B">>, <<"I", "E", "N", "O">>,
       <<"I", "O", "T">>, <<"P", "R", "D">>, <<"R", "G", "0", "1">> >>

\* segments that take the place of a valid one
OtherSegments ==
    { <<"X", "X", "0", "1">>, <<"R", "G", "1">>,
      <<"R", "G", "0", "1", "\n">>, <<"g", "l", "b">>, <<"I", "O">>,
      <<"D", "A", "T", "A", "P", "L", "A", "T", "F", "O", "R", "M", "S">> }

\* remove the segment at position k; k = 0 removes none
DropSegment(segs, k) ==
    IF k = 0 THEN segs
    ELSE SubSeq(segs, 1, k - 1) \o SubSeq(segs, k + 1, Len(segs))

\* the valid segments with those at the positions of A replaced by alt
AlterSegments(A, alt) ==
    [i \in 1..Len(ValidSegments) |-> IF i \in A THEN alt[i] ELSE ValidSegments[i]]

\* the names handed to validate_resource_group_name
RgNames ==
    { None }
    \cup UNION { { Join(DropSegment(AlterSegments(A, alt), k), <<"-">>) :
                     alt \in [A -> OtherSegments], k \in 0..Len(ValidSegments) } :
                 A \in { B \in SUBSET (1..Len(ValidSegments)) :
                           Cardinality(B) <= MaxAltered } }

(***************************************************************************)
(* tad_orchestrator.py                                                     *)
(***************************************************************************)
max_retries == 2

\* a variant that starts with the first three sections of the registry
priority_sections_registry == Take(TAD_SECTION_ORDER, 3)

priority_sections ==
    << "hosting", "identity_access_management", "network_configuration" >>

get_section_order == TAD_SECTION_ORDER

remaining_sections_sliced ==
    SubSeq(get_section_order, Len(priority_sections) + 1, Len(get_section_order))
remaining_sections ==
    SelectSeq(get_section_order, LAMBDA s : s \notin Range(priority_sections))

\* the order in which generate_tad runs the sections
GenerationOrder ==
    SelectSeq(priority_sections, LAMBDA s : s \in TAD_SECTION_SCHEMAS)
    \o SelectSeq(remaining_sections, LAMBDA s : s \in TAD_SECTION_SCHEMAS)

\* f"rg_{env.lower()}"
RgKey(env) ==
    CASE env = "DEV" -> "rg_dev"
      [] env = "PRD" -> "rg_prd"
      [] env = "TST" -> "rg_tst"
      [] OTHER       -> "rg_"

\* a variant that keeps only the results that carry a name
RECURSIVE NamingLoopNamedOnly(_, _, _)
NamingLoopNamedOnly(envs, variant, acc) ==
    IF envs = <<>> THEN acc
    ELSE NamingLoopNamedOnly(Tail(envs), variant,
             IF variant = "error" THEN acc
             ELSE DictSet(acc, RgKey(Head(envs)), variant))

RECURSIVE NamingLoop(_, _, _)
NamingLoop(envs, variant, acc) ==
    IF envs = <<>> THEN acc
    ELSE NamingLoop(Tail(envs), variant, DictSet(acc, RgKey(Head(envs)), variant))

_generate_naming_artifacts(ctx, variant) ==
    NamingLoop(ctx.infrastructure.environments, variant, <<>>)

_generate_error_section(s, v) ==
    [ kind    |-> "error_section",
      section |-> s,
      attempt |-> max_retries + 1,
      issues  |-> [i \in 1..Len(Take(v.issues, 5)) |->
                      <<Upper(v.issues[i].severity), v.issues[i].description>>] ]

_generate_validation_report_section(vr, rag_summary) ==
    [ coverage_score  |-> rag_summary.coverage_score,
      found           |-> rag_summary.found,
      missing         |-> rag_summary.missing,
      rows            |-> [i \in 1..Len(vr) |->
                              [ section |-> vr[i][1],
                                valid   |-> vr[i][2].valid,
                                score   |-> vr[i][2].score,
                                issues  |-> Len(vr[i][2].issues) ]],
      critical_issues |->
          LET RECURSIVE Collect(_)
              Collect(i) ==
                  IF i > Len(vr) THEN <<>>
                  ELSE [j \in 1..Len(CriticalOf(vr[i][2].issues)) |->
                           <<vr[i][1], CriticalOf(vr[i][2].issues)[j].description>>]
                       \o Collect(i + 1)
          IN  Collect(1) ]

NoReport ==
    [ coverage_score |-> <<0, 1>>, found |-> <<>>, missing |-> <<>>,
      rows |-> <<>>, critical_issues |-> <<>> ]

\* the section bodies of the document: the loop over get_section_order()
AssembleInsertionOrder(secs) == [i \in 1..Len(secs) |-> secs[i][2]]
AssembleBody(secs) ==
    LET present == SelectSeq(get_section_order, LAMBDA k : DictHas(secs, k))
    IN  [i \in 1..Len(present) |-> DictGet(secs, present[i])]

_assemble_tad(secs, vr, ctx, rag_summary) ==
    [ title          |-> "Technical Architecture Document",
      project        |-> ctx.project.full_name,
      body           |-> AssembleBody(secs),
      report         |-> _generate_validation_report_section(vr, rag_summary),
      score          |-> <<0, 1>>,
      missing_fields |-> <<>> ]

NoRagSummary == [found |-> <<>>, missing |-> <<>>, coverage_score |-> <<0, 1>>]

_handle_incomplete_requirements(ctx) ==
    [ tad_markdown      |->
          [ title          |-> "Requirements Incomplete",
            project        |-> "",
            body           |-> <<>>,
            report         |-> NoReport,
            score          |-> ctx.completeness.score,
            missing_fields |-> ctx.completeness.missing_fields ],
      validation_report |-> <<>>,
      rag_coverage      |-> NoRagSummary,
      metadata          |->
          [ status         |-> "incomplete_requirements",
            total_sections |-> 0,
            valid_sections |-> 0,
            average_score  |-> <<0, 1>> ] ]

\* a variant that counts every section without a critical issue as valid
PipelineResultLenient(secs, vr, ctx, rd) ==
    [ tad_markdown      |-> _assemble_tad(secs, vr, ctx, get_rag_summary(rd)),
      validation_report |-> vr,
      rag_coverage      |-> get_rag_summary(rd),
      metadata          |->
          [ status         |-> "generated",
            total_sections |-> Len(secs),
            valid_sections |->
                Cardinality({i \in 1..Len(vr) : Len(CriticalOf(vr[i][2].issues)) = 0}),
            average_score  |->
                <<SumSeq([i \in 1..Len(vr) |-> vr[i][2].score]), Len(vr)>> ] ]

\* the dict returned at the end of generate_tad
PipelineResult(secs, vr, ctx, rd) ==
    [ tad_markdown      |-> _assemble_tad(secs, vr, ctx, get_rag_summary(rd)),
      validation_report |-> vr,
      rag_coverage      |-> get_rag_summary(rd),
      metadata          |->
          [ status         |-> "generated",
            total_sections |-> Len(secs),
            valid_sections |-> Cardinality({i \in 1..Len(vr) : vr[i][2].valid}),
            \* sum(scores) / len(validation_report) as <<num, den>>
            average_score  |->
                <<SumSeq([i \in 1..Len(vr) |-> vr[i][2].score]), Len(vr)>> ] ]

NoResult ==
    [ tad_markdown      |->
          [ title |-> "", project |-> "", body |-> <<>>, report |-> NoReport,
            score |-> <<0, 1>>, missing_fields |-> <<>> ],
      validation_report |-> <<>>,
      rag_coverage      |-> NoRagSummary,
      metadata          |-> [ status |-> "none", total_sections |-> 0,
                              valid_sections |-> 0, average_score |-> <<0, 1>> ] ]

(***************************************************************************)
(* The run of generate_tad                                                 *)
(***************************************************************************)
current == GenerationOrder[idx]

\* one record per Writer call of a section
LogEntry(fb, outcome, v) ==
    [prompt_feedback |-> FeedbackContext(fb), outcome |-> outcome, validation |-> v]

NoLog == [section |-> "", entries |-> <<>>]

\* the attempts made so far by the call for the current section
Entries == IF log.section = current THEN log.entries ELSE <<>>

\* finished sections that were not a first-try success
Troubled ==
    {i \in 1..Len(section_results) :
        ~(section_results[i][2].attempts = 1
          /\ validation_report[i][2] = CleanValidation)}

\* attempts of the run so far that did not end in a clean validation
Disturbed ==
    attempt
    + SumSeq([i \in 1..Len(section_results) |->
                 section_results[i][2].attempts - 1
                 + (IF validation_report[i][2] = CleanValidation THEN 0 ELSE 1)])

\* the environment may disturb the first attempt of a further section
MayDisturb ==
    /\ attempt > 0 \/ Cardinality(Troubled) < MaxTroubled
    /\ Disturbed < MaxDisturbed

SetLast(q, outcome, v) ==
    [q EXCEPT ![Len(q)] = [@ EXCEPT !.outcome = outcome, !.validation = v]]

InitCommon ==
    /\ normalized_context = NoContext
    /\ retrieval_queries = 0
    /\ naming_data = <<>>
    /\ naming_calls = 0
    /\ idx = 1
    /\ attempt = 0
    /\ feedback = NoFeedback
    /\ section_content = NoContent
    /\ log = NoLog
    /\ sections = <<>>
    /\ validation_report = <<>>
    /\ section_results = <<>>
    /\ result = NoResult

\* no retrieve_all call is in progress
RetrievalIdle ==
    /\ rag_metadata = NoMetadata
    /\ rag_partial = <<>>
    /\ query_log = <<>>

\* no validate_section call is in progress
ReviewIdle ==
    /\ review_content = NoText
    /\ review_section = ""
    /\ automated_validation = NoValidation
    /\ llm_validation = NoValidation
    /\ llm_response = NoLlmResponse
    /\ review_result = NoValidation
    /\ llm_calls = 0

\* no call of a single function is in progress
UnitIdle ==
    /\ project_name = <<>>
    /\ acronyms = <<>>
    /\ requirements = NoRequirements
    /\ search_outcome = NoSearch
    /\ rag_results = <<>>
    /\ rg_result = NoRgResult
    /\ rg_name = <<>>
    /\ rg_validation = NoNameValidation
    /\ utcnow = 0
    /\ normalize_calls = <<>>

Init ==
    /\ pc = "start"
    /\ raw \in PipelineRequests
    /\ rag_data = NoRagData
    /\ InitCommon
    /\ RetrievalIdle
    /\ ReviewIdle
    /\ UnitIdle

\* "if not normalized_context["completeness"]["is_complete"]"
ShortCircuitOnMissing(ctx) == Len(ctx.completeness.missing_fields) > 0
ShortCircuit(ctx) == ~ctx.completeness.is_complete

\* STAGE 1 and the early return on incomplete requirements
Stage1Normalize ==
    /\ pc = "start"
    /\ normalized_context' = normalize(raw)
    /\ IF ShortCircuit(normalized_context')
       THEN /\ result' = _handle_incomplete_requirements(normalized_context')
            /\ pc' = "returned"
       ELSE /\ result' = result
            /\ pc' = "stage2"
    /\ UNCHANGED <<rag_metadata, RetrievalVars, ReviewVars, UnitVars>>
    /\ UNCHANGED <<raw, rag_data, retrieval_queries, naming_data, naming_calls,
                   idx, attempt, feedback, section_content, log, sections,
                   validation_report, section_results>>

\* STAGE 2: retrieve_all issues one query per taxonomy entry
Stage2Retrieve ==
    /\ pc = "stage2"
    /\ \E scenario \in SearchScenarios : rag_data' = retrieve_all(scenario)
    /\ rag_metadata' = query_metadata(rag_data')
    /\ retrieval_queries' = retrieval_queries + Len(RagEntries)
    /\ pc' = "naming"
    /\ UNCHANGED <<RetrievalVars, ReviewVars, UnitVars>>
    /\ UNCHANGED <<raw, normalized_context, naming_data, naming_calls, idx,
                   attempt, feedback, section_content, log, sections,
                   validation_report, section_results, result>>

\* The resolver searches the index the retrieval stage has just queried: it
\* resolves a name only if the resource group convention can be retrieved.
NamingVariants(rd) ==
    IF rd["naming_conventions.resource_groups"].found
    THEN {"name", "error"} ELSE {"error"}

\* STAGE 2.5: one resolver call per environment
Stage25Naming ==
    /\ pc = "naming"
    /\ \E variant \in NamingVariants(rag_data) :
           naming_data' = _generate_naming_artifacts(normalized_context, variant)
    /\ naming_calls' = naming_calls + Len(normalized_context.infrastructure.environments)
    /\ pc' = "writer"
    /\ UNCHANGED <<rag_metadata, RetrievalVars, ReviewVars, UnitVars>>
    /\ UNCHANGED <<raw, normalized_context, rag_data, retrieval_queries, idx,
                   attempt, feedback, section_content, log, sections,
                   validation_report, section_results, result>>

\* the except clause of the attempt loop: re-raise on the last attempt only
\* a variant that re-raises on every attempt
ReRaisesAlways(a) == TRUE
ReRaises(a) == a = max_retries

OnException ==
    IF ReRaises(attempt)
    THEN /\ pc' = "raised"
         /\ attempt' = attempt
    ELSE /\ pc' = "writer"
         /\ attempt' = attempt + 1

\* a variant in which a Writer call resolves the names again
WriterReturnsResolving ==
    /\ pc = "writer"
    /\ section_content' = WriterText(current, attempt + 1)
    /\ log' = [section |-> current,
               entries |-> Append(Entries, LogEntry(feedback, "pending", NoValidation))]
    /\ \E variant \in NamingVariants(rag_data) :
           naming_data' = _generate_naming_artifacts(normalized_context, variant)
    /\ naming_calls' = naming_calls + Len(normalized_context.infrastructure.environments)
    /\ pc' = "reviewer"
    /\ UNCHANGED <<rag_metadata, RetrievalVars, ReviewVars, UnitVars>>
    /\ UNCHANGED <<raw, normalized_context, rag_data, retrieval_queries,
                   idx, attempt, feedback, sections,
                   validation_report, section_results, result>>

WriterReturns ==
    /\ pc = "writer"
    /\ section_content' = WriterText(current, attempt + 1)
    /\ log' = [section |-> current,
               entries |-> Append(Entries, LogEntry(feedback, "pending", NoValidation))]
    /\ pc' = "reviewer"
    /\ UNCHANGED <<rag_metadata, RetrievalVars, ReviewVars, UnitVars>>
    /\ UNCHANGED <<raw, normalized_context, rag_data, retrieval_queries,
                   naming_data, naming_calls, idx, attempt, feedback, sections,
                   validation_report, section_results, result>>

WriterRaises ==
    /\ pc = "writer"
    /\ MayDisturb
    /\ log' = [section |-> current,
               entries |-> Append(Entries,
                                  LogEntry(feedback, "writer_raised", NoValidation))]
    /\ OnException
    /\ UNCHANGED <<rag_metadata, RetrievalVars, ReviewVars, UnitVars>>
    /\ UNCHANGED <<raw, normalized_context, rag_data, retrieval_queries,
                   naming_data, naming_calls, idx, feedback, section_content,
                   sections, validation_report, section_results, result>>

ReviewerRaises ==
    /\ pc = "reviewer"
    /\ MayDisturb
    /\ log' = [log EXCEPT !.entries = SetLast(@, "reviewer_raised", NoValidation)]
    /\ OnException
    /\ UNCHANGED <<rag_metadata, RetrievalVars, ReviewVars, UnitVars>>
    /\ UNCHANGED <<raw, normalized_context, rag_data, retrieval_queries,
                   naming_data, naming_calls, idx, feedback, section_content,
                   sections, validation_report, section_results, result>>

\* "if not critical_issues and attempt > 0": accept with minor issues
DegradedAcceptAlways(v, a) == Len(CriticalOf(v.issues)) = 0
DegradedAcceptNever(v, a) == FALSE
\* a variant that accepts whatever the last attempt produced
DegradedAcceptOnLast(v, a) == a = max_retries \/ (Len(CriticalOf(v.issues)) = 0 /\ a > 0)
DegradedAccept(v, a) == Len(CriticalOf(v.issues)) = 0 /\ a > 0

\* range(self.max_retries + 1): is there another iteration after attempt a
HasNextAttemptExtra(a) == a < max_retries + 1
HasNextAttempt(a) == a < max_retries

\* the content returned when the loop is left without a return
FailedContentRaw(s, v, content) == content
FailedContent(s, v, content) == _generate_error_section(s, v)

\* the feedback prepared for the next attempt
NextFeedbackDropped(v) ==
    [present |-> TRUE, issues |-> <<>>, recommendations |-> v.recommendations]
\* a variant that forwards the issues of every severity
NextFeedbackAllIssues(v) ==
    [present |-> TRUE, issues |-> v.issues, recommendations |-> v.recommendations]
NextFeedback(v) ==
    [ present         |-> TRUE,
      issues          |-> CriticalOf(v.issues),
      recommendations |-> v.recommendations ]

\* a variant that records only the critical issues of the last validation
StoreSectionCriticalOnly(content, v, attempts, via) ==
    /\ sections' = DictSet(sections, current, content)
    /\ validation_report' =
           DictSet(validation_report, current, [v EXCEPT !.issues = CriticalOf(@)])
    /\ section_results' = DictSet(section_results, current,
                                  [attempts |-> attempts, via |-> via])
    /\ attempt' = 0
    /\ feedback' = NoFeedback
    /\ section_content' = NoContent
    /\ IF idx < Len(GenerationOrder)
       THEN idx' = idx + 1 /\ pc' = "writer"
       ELSE idx' = idx /\ pc' = "assemble"

\* lines 111-112 and the step of the for loop of generate_tad
StoreSection(content, v, attempts, via) ==
    /\ sections' = DictSet(sections, current, content)
    /\ validation_report' = DictSet(validation_report, current, v)
    /\ section_results' = DictSet(section_results, current,
                                  [attempts |-> attempts, via |-> via])
    /\ attempt' = 0
    /\ feedback' = NoFeedback
    /\ section_content' = NoContent
    /\ IF idx < Len(GenerationOrder)
       THEN idx' = idx + 1 /\ pc' = "writer"
       ELSE idx' = idx /\ pc' = "assemble"

ReviewerReturns ==
    /\ pc = "reviewer"
    /\ \E v \in ReviewerOutputs :
        /\ v # CleanValidation => MayDisturb
        /\ log' = [log EXCEPT !.entries = SetLast(@, "validated", v)]
        /\ IF v.valid
           THEN StoreSection(section_content, v, attempt + 1, "valid")
           ELSE IF DegradedAccept(v, attempt)
           THEN StoreSection(section_content, v, attempt + 1, "degraded")
           ELSE IF HasNextAttempt(attempt)
           THEN /\ feedback' = NextFeedback(v)
                /\ attempt' = attempt + 1
                /\ pc' = "writer"
                /\ UNCHANGED <<idx, section_content, sections, validation_report,
                               section_results>>
           ELSE StoreSection(FailedContent(current, v, section_content), v,
                             max_retries + 1, "failed")
    /\ UNCHANGED <<rag_metadata, RetrievalVars, ReviewVars, UnitVars>>
    /\ UNCHANGED <<raw, normalized_context, rag_data, retrieval_queries,
                   naming_data, naming_calls, result>>

AssembleAndReturn ==
    /\ pc = "assemble"
    /\ result' = PipelineResult(sections, validation_report, normalized_context,
                                rag_data)
    /\ pc' = "returned"
    /\ UNCHANGED <<rag_metadata, RetrievalVars, ReviewVars, UnitVars>>
    /\ UNCHANGED <<raw, normalized_context, rag_data, retrieval_queries,
                   naming_data, naming_calls, idx, attempt, feedback,
                   section_content, log, sections, validation_report,
                   section_results>>

Next ==
    \/ Stage1Normalize
    \/ Stage2Retrieve
    \/ Stage25Naming
    \/ WriterReturns
    \/ WriterRaises
    \/ ReviewerReturns
    \/ ReviewerRaises
    \/ AssembleAndReturn

Spec == Init /\ [][Next]_vars

(***************************************************************************)
(* The normalizer on its own: normalize applied to every bounded input     *)
(***************************************************************************)
InitNorm ==
    /\ pc = "norm_start"
    /\ \E P \in SUBSET OptFieldSet :
         /\ \/ /\ Cardinality(P) <= MaxProvided
               /\ \E st \in [P -> {"empty", "value"}], named \in BOOLEAN :
                      raw = RawInput(P, st, named)
            \* any number of fields, each with a value
            \/ \E named \in BOOLEAN : raw = RawInput(P, [f \in P |-> "value"], named)
    /\ rag_data = NoRagData
    /\ InitCommon
    /\ RetrievalIdle
    /\ ReviewIdle
    /\ UnitIdle

NormalizeOnly ==
    /\ pc = "norm_start"
    /\ normalized_context' = normalize(raw)
    /\ pc' = "norm_done"
    /\ UNCHANGED <<rag_metadata, RetrievalVars, ReviewVars, UnitVars>>
    /\ UNCHANGED <<raw, rag_data, retrieval_queries, naming_data, naming_calls,
                   idx, attempt, feedback, section_content, log, sections,
                   validation_report, section_results, result>>

NextNorm == NormalizeOnly

SpecNorm == InitNorm /\ [][NextNorm]_vars

(***************************************************************************)
(* retrieve_all on its own, one query per step, in the order of rag_queries *)
(***************************************************************************)
InitRag ==
    /\ pc = "rag_query"
    /\ raw = Request({"description"}, {})
    /\ rag_data = NoRagData
    /\ normalized_context \in RagContexts
    /\ retrieval_queries = 0
    /\ naming_data = <<>>
    /\ naming_calls = 0
    /\ idx = 1
    /\ attempt = 0
    /\ feedback = NoFeedback
    /\ section_content = NoContent
    /\ log = NoLog
    /\ sections = <<>>
    /\ validation_report = <<>>
    /\ section_results = <<>>
    /\ result = NoResult
    /\ RetrievalIdle
    /\ ReviewIdle
    /\ UnitIdle

NextEntry == RagEntries[Len(query_log) + 1]

EmptyQueries == {i \in 1..Len(query_log) : query_log[i][2] = "empty"}

\* the loops go on to the next entry after a hit, a miss and an exception
AfterQueryAborting(outcome, made) ==
    IF outcome = "error" \/ made = Len(RagEntries) THEN "rag_metadata"
    ELSE "rag_query"
AfterQuery(outcome, made) ==
    IF made = Len(RagEntries) THEN "rag_metadata" ELSE "rag_query"

\* the body of the three loops: the try block and its except clause
Query(outcome) ==
    /\ pc = "rag_query"
    /\ query_log' = Append(query_log,
                           <<NextEntry, outcome, QueryText(NextEntry, normalized_context)>>)
    /\ rag_partial' = DictSet(rag_partial, NextEntry, RetrieveEntry(outcome))
    /\ retrieval_queries' = retrieval_queries + 1
    /\ pc' = AfterQuery(outcome, Len(query_log'))
    /\ UNCHANGED <<raw, normalized_context, rag_data, naming_data, naming_calls,
                   idx, attempt, feedback, section_content, log, sections,
                   validation_report, section_results, result, rag_metadata,
                   ReviewVars, UnitVars>>

\* hybrid_search returns chunks
QueryHits == Query("hit")

\* hybrid_search returns an empty list
QueryEmpty == Cardinality(EmptyQueries) < MaxEmpty /\ Query("empty")

\* generate_embedding or hybrid_search raises
QueryRaises == Query("error")

\* "Calculate metadata" and the return of retrieve_all
RetrieveFinish ==
    /\ pc = "rag_metadata"
    /\ rag_data' = [e \in Range(DictKeys(rag_partial)) |-> DictGet(rag_partial, e)]
    /\ rag_metadata' = query_metadata(rag_data')
    /\ pc' = "rag_done"
    /\ UNCHANGED <<raw, normalized_context, retrieval_queries, naming_data,
                   naming_calls, idx, attempt, feedback, section_content, log,
                   sections, validation_report, section_results, result,
                   RetrievalVars, ReviewVars, UnitVars>>

NextRag ==
    \/ QueryHits
    \/ QueryEmpty
    \/ QueryRaises
    \/ RetrieveFinish

SpecRag == InitRag /\ [][NextRag]_vars

(***************************************************************************)
(* validate_section on its own: a text, a schema of the registry and the   *)
(* rag_data of a retrieval                                                 *)
(***************************************************************************)
InitReview ==
    /\ pc = "review_start"
    /\ raw = Request({"description"}, {})
    /\ \E scenario \in SearchScenarios : rag_data = retrieve_all(scenario)
    /\ rag_metadata = query_metadata(rag_data)
    /\ rag_partial = <<>>
    /\ query_log = <<>>
    /\ InitCommon
    /\ review_content \in SectionContents
    /\ review_section \in TAD_SECTION_SCHEMAS
    /\ automated_validation = NoValidation
    /\ llm_validation = NoValidation
    /\ llm_response = NoLlmResponse
    /\ review_result = NoValidation
    /\ llm_calls = 0
    /\ UnitIdle

ReviewUnchanged ==
    UNCHANGED <<raw, normalized_context, rag_data, retrieval_queries,
                naming_data, naming_calls, idx, attempt, feedback,
                section_content, log, sections, validation_report,
                section_results, result, rag_metadata, RetrievalVars,
                review_content, review_section, UnitVars>>

\* "if critical_automated": phase 2 is skipped
SkipsLlmNever(automated) == FALSE
SkipsLlm(automated) == Len(CriticalOf(automated.issues)) > 0

\* phase 1 and the early return
AutomatedChecks ==
    /\ pc = "review_start"
    /\ automated_validation' =
           _automated_validation(review_content,
                                 get_section_schema(review_section), rag_data)
    /\ IF SkipsLlm(automated_validation')
       THEN /\ review_result' = AutomatedOnly(automated_validation')
            /\ pc' = "review_done"
       ELSE /\ review_result' = review_result
            /\ pc' = "review_llm"
    /\ UNCHANGED <<llm_validation, llm_response, llm_calls>>
    /\ ReviewUnchanged

\* phase 2: the chat completion answers, the reply is parsed and combined
LlmReturns ==
    /\ pc = "review_llm"
    /\ \E text \in LlmTexts :
        /\ llm_response' = [kind |-> "text", text |-> text]
        /\ llm_validation' = _parse_llm_validation_response(text)
    /\ llm_calls' = llm_calls + 1
    /\ review_result' = _combine_validations(automated_validation, llm_validation')
    /\ pc' = "review_done"
    /\ UNCHANGED automated_validation
    /\ ReviewUnchanged

\* phase 2: the chat completion call raises
LlmRaises ==
    /\ pc = "review_llm"
    /\ llm_response' = [kind |-> "raised", text |-> NoLlmText]
    /\ llm_validation' = LlmFailure
    /\ llm_calls' = llm_calls + 1
    /\ review_result' = _combine_validations(automated_validation, llm_validation')
    /\ pc' = "review_done"
    /\ UNCHANGED automated_validation
    /\ ReviewUnchanged

NextReview ==
    \/ AutomatedChecks
    \/ LlmReturns
    \/ LlmRaises

SpecReview == InitReview /\ [][NextReview]_vars

(***************************************************************************)
(* _extract_acronym on its own: repeated calls on one project name         *)
(***************************************************************************)
\* the variables of the run of generate_tad
RunVars == <<raw, normalized_context, rag_data, retrieval_queries, naming_data,
             naming_calls, idx, attempt, feedback, section_content, log,
             sections, validation_report, section_results, result,
             rag_metadata, RetrievalVars, ReviewVars>>

\* no run of generate_tad is in progress
RunIdle ==
    /\ raw = Request({}, {})
    /\ rag_data = NoRagData
    /\ InitCommon
    /\ RetrievalIdle
    /\ ReviewIdle

InitAcronym ==
    /\ pc = "acronym_call"
    /\ RunIdle
    /\ project_name \in ProjectNames
    /\ acronyms = <<>>
    /\ requirements = NoRequirements
    /\ search_outcome = NoSearch
    /\ rag_results = <<>>
    /\ rg_result = NoRgResult
    /\ rg_name = <<>>
    /\ rg_validation = NoNameValidation
    /\ utcnow = 0
    /\ normalize_calls = <<>>

ExtractAcronym ==
    /\ pc = "acronym_call"
    /\ Len(acronyms) < MaxCalls
    /\ acronyms' = Append(acronyms, _extract_acronym(project_name))
    /\ UNCHANGED <<pc, RunVars>>
    /\ UNCHANGED <<project_name, requirements, search_outcome, rag_results,
                   rg_result, rg_name, rg_validation, utcnow, normalize_calls>>

NextAcronym == ExtractAcronym

SpecAcronym == InitAcronym /\ [][NextAcronym]_vars

(***************************************************************************)
(* normalize called repeatedly on one raw input while time passes          *)
(***************************************************************************)
InitNormCalls ==
    /\ pc = "norm_calls"
    /\ \E P \in SUBSET OptFieldSet :
         /\ Cardinality(P) <= MaxGiven
         /\ \E st \in [P -> {"empty", "value", "number", "list"}], named \in BOOLEAN :
                /\ Cardinality({f \in P : st[f] = "number"}) <= MaxMalformed
                /\ raw = RawInput(P, st, named)
    /\ rag_data = NoRagData
    /\ InitCommon
    /\ RetrievalIdle
    /\ ReviewIdle
    /\ utcnow = 0
    /\ normalize_calls = <<>>
    /\ project_name = <<>>
    /\ acronyms = <<>>
    /\ requirements = NoRequirements
    /\ search_outcome = NoSearch
    /\ rag_results = <<>>
    /\ rg_result = NoRgResult
    /\ rg_name = <<>>
    /\ rg_validation = NoNameValidation

NormalizeCall ==
    /\ pc = "norm_calls"
    /\ Len(normalize_calls) < MaxCalls
    /\ normalize_calls' = Append(normalize_calls, NormalizeOutcome(raw, utcnow))
    /\ UNCHANGED <<pc, RunVars>>
    /\ UNCHANGED <<project_name, acronyms, requirements, search_outcome,
                   rag_results, rg_result, rg_name, rg_validation, utcnow>>

\* time passes between two calls
ClockTick ==
    /\ pc = "norm_calls"
    /\ utcnow < MaxTicks
    /\ utcnow' = utcnow + 1
    /\ UNCHANGED <<pc, RunVars>>
    /\ UNCHANGED <<project_name, acronyms, requirements, search_outcome,
                   rag_results, rg_result, rg_name, rg_validation,
                   normalize_calls>>

NextNormCalls ==
    \/ NormalizeCall
    \/ ClockTick

SpecNormCalls == InitNormCalls /\ [][NextNormCalls]_vars

(***************************************************************************)
(* generate_resource_group_name on its own                                 *)
(***************************************************************************)
InitNaming ==
    /\ pc = "rg_call"
    /\ RunIdle
    /\ requirements \in RgRequirements
    /\ search_outcome \in SearchOutcomes
    /\ rag_results = <<>>
    /\ rg_result = NoRgResult
    /\ project_name = <<>>
    /\ acronyms = <<>>
    /\ rg_name = <<>>
    /\ rg_validation = NoNameValidation
    /\ utcnow = 0
    /\ normalize_calls = <<>>

GenerateResourceGroupName ==
    /\ pc = "rg_call"
    /\ rag_results' = search_naming_convention_for_resource_groups(search_outcome)
    /\ rg_result' = generate_resource_group_name(requirements, search_outcome)
    /\ pc' = "rg_done"
    /\ UNCHANGED RunVars
    /\ UNCHANGED <<project_name, acronyms, requirements, search_outcome, rg_name,
                   rg_validation, utcnow, normalize_calls>>

\* the returned name is handed to validate_resource_group_name
ValidateGeneratedName ==
    /\ pc = "rg_done"
    /\ "error" \notin DOMAIN rg_result
    /\ rg_result.name # None
    /\ rg_name' = rg_result.name
    /\ rg_validation' = validate_resource_group_name(rg_result.name)
    /\ pc' = "rg_checked"
    /\ UNCHANGED RunVars
    /\ UNCHANGED <<project_name, acronyms, requirements, search_outcome,
                   rag_results, rg_result, utcnow, normalize_calls>>

NextNaming ==
    \/ GenerateResourceGroupName
    \/ ValidateGeneratedName

SpecNaming == InitNaming /\ [][NextNaming]_vars

(***************************************************************************)
(* validate_resource_group_name on its own                                 *)
(***************************************************************************)
InitValidateName ==
    /\ pc = "rg_validate"
    /\ RunIdle
    /\ rg_name \in RgNames
    /\ rg_validation = NoNameValidation
    /\ project_name = <<>>
    /\ acronyms = <<>>
    /\ requirements = NoRequirements
    /\ search_outcome = NoSearch
    /\ rag_results = <<>>
    /\ rg_result = NoRgResult
    /\ utcnow = 0
    /\ normalize_calls = <<>>

ValidateResourceGroupName ==
    /\ pc = "rg_validate"
    /\ rg_validation' = validate_resource_group_name(rg_name)
    /\ pc' = "rg_validated"
    /\ UNCHANGED RunVars
    /\ UNCHANGED <<project_name, acronyms, requirements, search_outcome,
                   rag_results, rg_result, rg_name, utcnow, normalize_calls>>

NextValidateName == ValidateResourceGroupName

SpecValidateName == InitValidateName /\ [][NextValidateName]_vars

(***************************************************************************)
(* Properties                                                              *)
(***************************************************************************)
\* position of a section in the registry order
RegistryIndex(s) == CHOOSE i \in 1..Len(TAD_SECTION_ORDER) : TAD_SECTION_ORDER[i] = s

\* generate_tad has returned the result of a run that generated sections
Generated == pc = "returned" /\ result.metadata.status = "generated"

Body == result.tad_markdown.body

\* the log holds the complete history of the section that finished last
LogFinished ==
    /\ Len(section_results) > 0
    /\ log.section = section_results[Len(section_results)][1]

LastResult == section_results[Len(section_results)][2]

HasCritical(v) == Len(CriticalOf(v.issues)) > 0

\* every attempt completed without exception and found a critical issue
AllCritical(entries) ==
    \A i \in 1..Len(entries) :
        entries[i].outcome = "validated" /\ HasCritical(entries[i].validation)

\* C1: a section whose attempts all complete and all find a critical issue makes
\* exactly 3 Writer calls, ends FAILED with attempts = 3, and is represented in
\* the sections and in the assembled document by the failure placeholder, never
\* by Writer text.
C1_ExhaustionLaw ==
    /\ (LogFinished /\ AllCritical(log.entries)) =>
          /\ Len(log.entries) = 3
          /\ LastResult.attempts = 3
          /\ LastResult.via = "failed"
          /\ DictGet(sections, log.section) =
                 _generate_error_section(log.section, log.entries[3].validation)
    /\ \A i \in 1..Len(section_results) :
          section_results[i][2].via = "failed" =>
              /\ DictGet(sections, section_results[i][1]).kind = "error_section"
              /\ Generated =>
                    /\ \E j \in 1..Len(Body) : Body[j].section = section_results[i][1]
                    /\ \A j \in 1..Len(Body) :
                          Body[j].section = section_results[i][1] =>
                              Body[j].kind = "error_section"

C1_Witness ==
    /\ Generated
    /\ LogFinished
    /\ AllCritical(log.entries)
    /\ \E j \in 1..Len(Body) : Body[j].kind = "error_section"

\* the premise of the retry law on the history of the finished section
RetryLawCase ==
    /\ LogFinished
    /\ Len(log.entries) >= 2
    /\ log.entries[1].outcome = "validated"
    /\ Len(CriticalOf(log.entries[1].validation.issues)) = 1
    /\ log.entries[2].outcome = "validated"
    /\ log.entries[2].validation.issues = <<>>
    /\ log.entries[2].validation.valid

\* C2: one critical issue on attempt 1 and a valid, issue-free attempt 2: the
\* section is accepted with attempts = 2 after exactly two Writer calls, its
\* content is the text of attempt 2, and the feedback block of the second Writer
\* call holds the description of the attempt-1 critical issue unchanged.
C2_RetryLaw ==
    RetryLawCase =>
        /\ Len(log.entries) = 2
        /\ LastResult.attempts = 2
        /\ LastResult.via = "valid"
        /\ DictGet(sections, log.section) = WriterText(log.section, 2)
        /\ log.entries[1].prompt_feedback = <<>>
        /\ \E k \in 1..Len(log.entries[2].prompt_feedback) :
              log.entries[2].prompt_feedback[k] =
                  << "issue", "CRITICAL",
                     CriticalOf(log.entries[1].validation.issues)[1].description >>

C2_Witness == RetryLawCase /\ Generated

\* the validation recorded in the result for the section of a body entry
Recorded(c) == DictGet(result.validation_report, c.section)
AttemptsOf(c) == DictGet(section_results, c.section).attempts

\* C3 as stated: Writer text is in the document only with valid = true; every
\* other section used its 3 attempts and shows the failure placeholder.
C3_AcceptanceOriginal ==
    Generated =>
        \A j \in 1..Len(Body) :
            /\ Body[j].kind = "writer" => Recorded(Body[j]).valid
            /\ ~Recorded(Body[j]).valid =>
                  Body[j].kind = "error_section" /\ AttemptsOf(Body[j]) = 3

\* C3 amended: Writer text is in the document only if the recorded validation is
\* valid, or is invalid without any critical issue and stems from the second or
\* third attempt (degraded accept); every other section used its 3 attempts and
\* shows the failure placeholder.
C3_AcceptanceAmended ==
    Generated =>
        \A j \in 1..Len(Body) :
            LET accepted ==
                    \/ Recorded(Body[j]).valid
                    \/ /\ ~HasCritical(Recorded(Body[j]))
                       /\ Body[j].attempt >= 2
            IN  /\ Body[j].kind = "writer" => accepted
                /\ ~accepted =>
                      Body[j].kind = "error_section" /\ AttemptsOf(Body[j]) = 3

C3_Witness ==
    /\ Generated
    /\ \E j \in 1..Len(Body) :
          /\ Body[j].kind = "writer"
          /\ ~Recorded(Body[j]).valid
    /\ \E j \in 1..Len(Body) : Body[j].kind = "writer" /\ Recorded(Body[j]).valid

\* C4 as stated: an exception of the Writer or the Reviewer inside a section
\* never terminates generate_tad.
C4_SectionFailureIsolated == pc # "raised"

\* Reviewer calls made by the call whose history the log holds
ReviewerCalls ==
    Cardinality({i \in 1..Len(log.entries) :
                    log.entries[i].outcome \in {"validated", "reviewer_raised"}})

\* steps left to the attempt loops of the run: it decreases with every step
LoopMeasure ==
    IF pc \in {"writer", "reviewer"}
    THEN (Len(GenerationOrder) - idx) * 6 + (2 - attempt) * 2
         + (IF pc = "writer" THEN 2 ELSE 1)
    ELSE 0

LoopStepDecreases ==
    pc \in {"writer", "reviewer"} => (LoopMeasure' < LoopMeasure /\ LoopMeasure' >= 0)

AttemptBudget ==
    /\ Len(log.entries) <= 3
    /\ ReviewerCalls <= 3
    /\ attempt \in 0..2
    \* every attempt made so far, ended by an exception or not, used up one
    /\ (pc = "writer" /\ log.section = current) => Len(log.entries) = attempt
    /\ pc = "reviewer" => Len(log.entries) = attempt + 1
    /\ pc = "raised" => Len(log.entries) = 3

\* C5: whatever the attempt outcomes, a section sees at most 3 Writer and at
\* most 3 Reviewer calls, an attempt ended by an exception consumes one of the 3
\* attempts, and the loop always ends: every step of it lowers a bounded measure.
C5_BoundedRetryBudget ==
    /\ [] AttemptBudget
    /\ [][LoopStepDecreases]_vars

C5_Witness ==
    /\ LogFinished
    /\ Len(log.entries) = 3
    /\ \E i \in 1..2 : log.entries[i].outcome \in {"writer_raised", "reviewer_raised"}

\* C6: the sections of every assembled document are in registry order, although
\* hosting, identity_access_management and network_configuration are generated
\* first.
C6_AssemblyOrder ==
    Generated =>
        \A i, j \in 1..Len(Body) :
            i < j => RegistryIndex(Body[i].section) < RegistryIndex(Body[j].section)

C6_Witness ==
    /\ Generated
    /\ sections[1][1] = "hosting"
    /\ Body[1].section = "executive_summary"
    /\ Body[10].section = "hosting"

\* C7: a run that was not short-circuited returns each of the 19 registry
\* sections exactly once in the body, as real content or as the placeholder, and
\* exactly once in the validation map; the two key sets are equal.
C7_NoSilentOmission ==
    Generated =>
        /\ Len(Body) = 19
        /\ \A s \in Range(TAD_SECTION_ORDER) :
              /\ Cardinality({j \in 1..Len(Body) : Body[j].section = s}) = 1
              /\ Cardinality({j \in 1..Len(result.validation_report) :
                                 result.validation_report[j][1] = s}) = 1
        /\ \A j \in 1..Len(Body) : Body[j].kind \in {"writer", "error_section"}
        /\ Range(DictKeys(result.validation_report))
               = {Body[j].section : j \in 1..Len(Body)}

C7_Witness ==
    /\ Generated
    /\ \E j \in 1..Len(Body) : Body[j].kind = "error_section"
    /\ \E j \in 1..Len(Body) : Body[j].kind = "writer"

Normalized == normalized_context.completeness.status # "NONE"

\* the structured incomplete report, and nothing else done by the run
ShortCircuited ==
    /\ pc = "returned"
    /\ result.tad_markdown.title = "Requirements Incomplete"
    /\ result.metadata.status = "incomplete_requirements"
    /\ result.validation_report = <<>>
    /\ result.tad_markdown.body = <<>>
    /\ retrieval_queries = 0
    /\ naming_calls = 0
    /\ log = NoLog
    /\ sections = <<>>

\* C8: with isComplete = false (in particular for the input {}) generate_tad
\* returns without raising, issues no retrieval query, no naming resolution, no
\* Writer and no Reviewer call; the document signals the incomplete status and
\* the validation map is empty.
C8_IncompleteShortCircuit ==
    /\ (Normalized /\ ~normalized_context.completeness.is_complete) => ShortCircuited
    /\ (Normalized /\ raw = Request({}, {})) =>
          ~normalized_context.completeness.is_complete

C8_Witness == ShortCircuited /\ raw = Request({}, {})

ScoreBelowThreshold == ~ScoreAtLeastThreshold(normalized_context.completeness.score)

\* C9 as stated: a completeness score below 0.3 always short-circuits the run.
C9_BelowThresholdOriginal ==
    (Normalized /\ ScoreBelowThreshold) => ShortCircuited

\* C9 amended: a completeness score below 0.3 short-circuits the run with the
\* incomplete report whenever neither analysis nor functional nor non-functional
\* requirements were supplied; it is never a hard failure.
C9_BelowThresholdAmended ==
    (Normalized /\ ScoreBelowThreshold /\ ~has_any_content(raw)) => ShortCircuited

C9_Witness ==
    /\ ShortCircuited
    /\ ScoreBelowThreshold
    /\ normalized_context.completeness.missing_fields = <<>>

\* no optional field holds a value: each is absent (or present but empty)
NothingProvided == \A f \in OptFieldSet : raw[f] \in {"absent", "empty"}

\* C10: with all optional fields absent and no analysis text, normalize yields
\* status INCOMPLETE, isComplete = false and a score below 0.3.
C10_EmptyInputIncomplete ==
    (pc = "norm_done" /\ NothingProvided) =>
        /\ normalized_context.completeness.status = "INCOMPLETE"
        /\ ~normalized_context.completeness.is_complete
        /\ ~ScoreAtLeastThreshold(normalized_context.completeness.score)

C10_Witness ==
    /\ pc = "norm_done"
    /\ \A f \in OptFieldSet : raw[f] = "absent"
    /\ normalized_context.completeness.status = "INCOMPLETE"

(***************************************************************************)
(* Properties of validate_section                                          *)
(***************************************************************************)
\* validate_section has returned
Reviewed == pc = "review_done"

\* both phases ran: the chat completion was called
BothPhases == Reviewed /\ llm_response.kind # "none"

NoCriticalIn(issues) ==
    \A i \in 1..Len(issues) : issues[i].severity # "critical"

\* C11: when both phases run, the final score is 0.6 x automated score + 0.4 x
\* model score, the final issues are the automated issues followed by the model
\* issues, and valid holds exactly when that list has no critical issue and the
\* final score is at least 0.6.
C11_CombinedResult ==
    BothPhases =>
        /\ 10 * review_result.score =
               6 * automated_validation.score + 4 * llm_validation.score
        /\ review_result.issues =
               automated_validation.issues \o llm_validation.issues
        /\ review_result.valid <=>
               /\ NoCriticalIn(automated_validation.issues \o llm_validation.issues)
               /\ 6 * automated_validation.score + 4 * llm_validation.score >= 600

C11_Witness ==
    /\ BothPhases
    /\ Len(automated_validation.issues) > 0
    /\ Len(llm_validation.issues) > 0
    /\ automated_validation.score # llm_validation.score
    /\ review_result.valid

\* phase 1 has run
AutomatedDone == pc \in {"review_llm", "review_done"}

\* C12: the chat completion is called for the model-assisted check exactly when
\* the automated phase found no critical issue; when it is skipped the returned
\* result has valid = false, the automated score and exactly the automated
\* issues and recommendations.
C12_PhaseGating ==
    /\ llm_calls <= 1
    /\ pc = "review_llm" => NoCriticalIn(automated_validation.issues)
    /\ Reviewed =>
          /\ llm_calls = 1 <=> NoCriticalIn(automated_validation.issues)
          /\ llm_calls = 0 =>
                /\ review_result.valid = FALSE
                /\ review_result.score = automated_validation.score
                /\ review_result.issues = automated_validation.issues
                /\ review_result.recommendations =
                       automated_validation.recommendations

C12_Witness ==
    /\ Reviewed
    /\ llm_calls = 0
    /\ ~NoCriticalIn(automated_validation.issues)
    /\ Len(review_result.recommendations) > 0

ReviewSchema == get_section_schema(review_section)

\* the taxonomy entry under which retrieve_all stores the result of a RAGDomain
TaxonomyEntry(d) ==
    (IF d[1] = "naming" THEN "naming_conventions" ELSE d[1]) \o "." \o d[2]

\* the RetrievalDomainResult retrieve_all produced for a RAGDomain
Retrieved(d) == rag_data[TaxonomyEntry(d)]

\* required domains that were not found and whose absence the text does not state
UnstatedMissing ==
    {i \in 1..Len(ReviewSchema.required_rag_domains) :
        /\ ~Retrieved(ReviewSchema.required_rag_domains[i]).found
        /\ ~review_content.states_not_found}

TableMissing ==
    Len(ReviewSchema.required_tables) > 0 /\ ~review_content.has_table

\* the sum of the penalties of the failed checks
StatedPenalties ==
    (IF review_content.length < 500 THEN 30 ELSE 0)
    + (IF review_content.length > ReviewSchema.max_length THEN 10 ELSE 0)
    + (IF review_content.paragraphs < ReviewSchema.min_paragraphs THEN 20 ELSE 0)
    + (IF TableMissing THEN 20 ELSE 0)
    + (IF ReviewSchema.requires_mermaid /\ ~review_content.has_mermaid
       THEN 15 ELSE 0)
    + 25 * Cardinality(UnstatedMissing)
    + 5 * review_content.generic_phrases
    + (IF Len(ReviewSchema.required_rag_domains) > 0
          /\ ~review_content.has_citation
       THEN 15 ELSE 0)

\* C13: the automated score is 1.0 minus the penalties of the failed checks,
\* clamped to [0,1]; a critical issue is raised for a short text, for a missing
\* table (once) and for each required domain that retrieval did not find and the
\* text does not report; generic phrases are recommendations only; valid holds
\* exactly when there is no critical issue and the score is at least 0.6.
C13_AutomatedScore ==
    AutomatedDone =>
        /\ automated_validation.score = Max(0, Min(100, 100 - StatedPenalties))
        /\ Len(CriticalOf(automated_validation.issues)) =
               (IF review_content.length < 500 THEN 1 ELSE 0)
               + (IF TableMissing THEN 1 ELSE 0)
               + Cardinality(UnstatedMissing)
        /\ Len(automated_validation.recommendations) =
               review_content.generic_phrases
        /\ automated_validation.valid <=>
               /\ NoCriticalIn(automated_validation.issues)
               /\ automated_validation.score >= 60

\* the case of C14: 400 characters, no table, no diagram, both required
ShortBareCase ==
    /\ AutomatedDone
    /\ review_content.length = 400
    /\ ~review_content.has_table
    /\ ~review_content.has_mermaid
    /\ Len(ReviewSchema.required_tables) > 0
    /\ ReviewSchema.requires_mermaid

\* C14 as stated: in that case the automated check is invalid with a critical
\* issue and at least two penalties, and its score is at most 0.6 minus those
\* penalties (here minus the two smallest that apply, 0.20 and 0.15).
C14_ShortBareOriginal ==
    ShortBareCase =>
        /\ ~automated_validation.valid
        /\ ~NoCriticalIn(automated_validation.issues)
        /\ Len(automated_validation.issues) >= 2
        /\ automated_validation.score <= 60 - (20 + 15)

\* C14 amended: in that case the automated check is invalid with a critical
\* issue and at least two penalties, and its score is at most 1.0 minus the
\* penalties that apply (0.30, 0.20 and 0.15), that is at most 0.35.
C14_ShortBareAmended ==
    ShortBareCase =>
        /\ ~automated_validation.valid
        /\ ~NoCriticalIn(automated_validation.issues)
        /\ Len(automated_validation.issues) >= 2
        /\ automated_validation.score <= 100 - (30 + 20 + 15)

C14_Witness == ShortBareCase /\ automated_validation.score = 35

\* the block of the Writer prompt for the required domains of the section
WriterRagContext == _format_rag_context_for_section(ReviewSchema, rag_data)

\* C15: for every required RAG domain of the section, the Reviewer raises the
\* critical "not found but not stated" issue only if the result retrieve_all
\* produced for that domain has found = false, and the Writer prompt shows the
\* domain as NOT FOUND only in that case; a domain found by retrieval is shown as
\* found with its chunks.
C15_FoundnessAgreement ==
    AutomatedDone =>
        \A i \in 1..Len(ReviewSchema.required_rag_domains) :
            LET d == ReviewSchema.required_rag_domains[i]
                name == d[1] \o "." \o d[2]
            IN  /\ (\E k \in 1..Len(automated_validation.issues) :
                       /\ automated_validation.issues[k].category = "rag"
                       /\ automated_validation.issues[k].severity = "critical"
                       /\ automated_validation.issues[k].about = name)
                   => ~Retrieved(d).found
                /\ WriterRagContext[i].status = "NOT FOUND" => ~Retrieved(d).found
                /\ Retrieved(d).found =>
                       WriterRagContext[i].status = "FOUND" /\ WriterRagContext[i].chunks

\* C16: the score of every result validate_section returns lies in [0,1],
\* whatever the model-assisted review reports.
C16_ScoreRange ==
    Reviewed => review_result.score >= 0 /\ review_result.score <= 100

\* the reply cannot be parsed: no text, or a SCORE value that is no number
Unparsable ==
    /\ llm_response.kind = "text"
    /\ ~llm_response.text.readable \/ llm_response.text.score_line = "malformed"

\* C17: when the chat completion call raises or its reply cannot be parsed,
\* validate_section still returns a combined result whose model part is a pass
\* with score 0.7 and no issues; a reply without a SCORE line gets the model
\* score 0.7.
C17_ReviewDegradation ==
    /\ llm_response.kind # "none" => Reviewed
    /\ BothPhases =>
          /\ review_result.validation_method = "combined"
          /\ (llm_response.kind = "raised" \/ Unparsable) =>
                /\ llm_validation.valid
                /\ llm_validation.score = 70
                /\ llm_validation.issues = <<>>
                /\ review_result.issues = automated_validation.issues
                /\ 10 * review_result.score =
                       6 * automated_validation.score + 4 * 70
          /\ ( /\ llm_response.kind = "text"
               /\ llm_response.text.readable
               /\ llm_response.text.score_line = "absent" ) =>
                llm_validation.score = 70

C17_Witness ==
    /\ BothPhases
    /\ llm_response.kind = "raised"
    /\ review_result.valid
    /\ Len(review_result.recommendations) > 0

(***************************************************************************)
(* Properties of retrieve_all                                              *)
(***************************************************************************)
\* retrieve_all has returned
Retrieved12 == pc = "rag_done"

\* the entries whose query had the given outcome
QueriedWith(outcome) ==
    {query_log[i][1] : i \in {j \in 1..Len(query_log) : query_log[j][2] = outcome}}

FoundEntries == {e \in DOMAIN rag_data : rag_data[e].found}

\* C18: an entry whose query returned an empty list has found = false, no
\* chunks and a non-empty error; the coverage score is the number of found
\* entries over the number of entries; the found and missing lists of the
\* summary partition the entries; successful + failed = total queries.
C18_MissAndCoverage ==
    /\ \A i \in 1..Len(rag_partial) :
          query_log[i][2] = "empty" =>
              /\ rag_partial[i][1] = query_log[i][1]
              /\ rag_partial[i][2].found = FALSE
              /\ rag_partial[i][2].chunks = <<>>
              /\ rag_partial[i][2].error # ""
    /\ Retrieved12 =>
          LET summary == get_rag_summary(rag_data)
          IN  /\ \A e \in QueriedWith("empty") :
                    /\ ~rag_data[e].found
                    /\ rag_data[e].chunks = <<>>
                    /\ rag_data[e].error # ""
              /\ summary.coverage_score =
                     <<Cardinality(FoundEntries), Cardinality(Taxonomy)>>
              /\ Range(summary.found) = FoundEntries
              /\ Range(summary.missing) = Taxonomy \ FoundEntries
              /\ Len(summary.found) + Len(summary.missing) = Cardinality(Taxonomy)
              /\ rag_metadata.successful_queries + rag_metadata.failed_queries =
                     rag_metadata.total_queries
              /\ rag_metadata.total_queries = Cardinality(Taxonomy)
              /\ rag_metadata.successful_queries = Cardinality(FoundEntries)

C18_Witness ==
    /\ Retrieved12
    /\ QueriedWith("empty") # {}
    /\ QueriedWith("hit") # {}
    /\ QueriedWith("error") # {}

\* C19: whichever queries raise, retrieve_all goes on to query every entry of the
\* taxonomy and returns exactly one result per entry; the result of a query that
\* raised has found = false and the captured error.
C19_RetrievalIsolation ==
    /\ pc \in {"rag_query", "rag_metadata", "rag_done"} =>
          /\ Len(rag_partial) = Len(query_log)
          /\ retrieval_queries = Len(query_log)
          /\ \A i \in 1..Len(query_log) :
                /\ query_log[i][1] = RagEntries[i]
                /\ rag_partial[i][1] = RagEntries[i]
                /\ query_log[i][2] = "error" =>
                      /\ rag_partial[i][2].found = FALSE
                      /\ rag_partial[i][2].error = "exception"
          /\ pc = "rag_query" => Len(query_log) < Len(RagEntries)
          /\ pc # "rag_query" => Len(query_log) = Len(RagEntries)
    /\ Retrieved12 =>
          /\ DOMAIN rag_data = Taxonomy
          /\ \A e \in QueriedWith("error") :
                ~rag_data[e].found /\ rag_data[e].error = "exception"

C19_Witness ==
    /\ Retrieved12
    /\ query_log[1][2] = "error"
    /\ Cardinality(QueriedWith("error")) >= 3
    /\ query_log[Len(query_log)][2] = "hit"

(***************************************************************************)
(* Properties of the correction loop, continued                            *)
(***************************************************************************)
\* an attempt whose validation is invalid and holds no critical issue
SoftInvalid(e) ==
    /\ e.outcome = "validated"
    /\ ~e.validation.valid
    /\ ~HasCritical(e.validation)

\* C20: an attempt validated invalid without critical issue ends the section as
\* accepted with the content of that attempt and its valid = false validation
\* recorded when an earlier attempt was made, and is followed by a retry, not
\* by acceptance, when it is the first attempt of the section.
C20_DegradedAccept ==
    \A k \in 1..Len(log.entries) :
        SoftInvalid(log.entries[k]) =>
            IF k >= 2
            THEN /\ k = Len(log.entries)
                 /\ DictHas(section_results, log.section)
                 /\ DictGet(section_results, log.section) =
                        [attempts |-> k, via |-> "degraded"]
                 /\ DictGet(sections, log.section) = WriterText(log.section, k)
                 /\ DictGet(validation_report, log.section) =
                        log.entries[k].validation
                 /\ DictGet(validation_report, log.section).valid = FALSE
            ELSE /\ DictHas(section_results, log.section) =>
                        DictGet(section_results, log.section).attempts >= 2
                 /\ \/ Len(log.entries) >= 2
                    \/ /\ pc = "writer"
                       /\ attempt = 1
                       /\ current = log.section
                       /\ ~DictHas(sections, log.section)

C20_Witness ==
    /\ LogFinished
    /\ Len(log.entries) = 2
    /\ SoftInvalid(log.entries[1])
    /\ SoftInvalid(log.entries[2])
    /\ LastResult.via = "degraded"
    /\ Generated

(***************************************************************************)
(* Properties of the run: records, order, inputs, metadata                 *)
(***************************************************************************)
\* the last attempt of the section that finished last
LastEntry == log.entries[Len(log.entries)]

\* the validation map holds the Reviewer's result of the last attempt
RecordedIsLast ==
    /\ LogFinished =>
          /\ LastEntry.outcome = "validated"
          /\ LastResult.attempts = Len(log.entries)
          /\ DictGet(validation_report, log.section) = LastEntry.validation
          /\ LastResult.via = "failed" =>
                /\ ~LastEntry.validation.valid
                /\ HasCritical(LastEntry.validation)
                /\ DictGet(sections, log.section) =
                       _generate_error_section(log.section, LastEntry.validation)
    /\ Generated => result.validation_report = validation_report

\* an entry of the validation map is never rewritten by a later step
RecordedKept ==
    \A i \in 1..Len(validation_report) :
        /\ Len(validation_report') >= i
        /\ validation_report'[i] = validation_report[i]

\* C21: for every section of a returned result, accepted, degraded or FAILED,
\* the entry of the validation map is exactly the Reviewer's result of the
\* section's last attempt; for a FAILED section the placeholder replaces the
\* content while the recorded validation stays the true one (valid = false with
\* its critical issues).
C21_RecordedValidation ==
    /\ [] RecordedIsLast
    /\ [][RecordedKept]_vars

C21_Witness ==
    /\ Generated
    /\ \E i \in 1..Len(section_results) :
          /\ section_results[i][2].via = "failed"
          /\ DictGet(sections, section_results[i][1]).kind = "error_section"
          /\ ~result.validation_report[i][2].valid
          /\ Len(CriticalOf(result.validation_report[i][2].issues))
                 < Len(result.validation_report[i][2].issues)

\* hosting, identity_access_management, network_configuration, then the other
\* registry sections in registry order
ProcessingOrder ==
    << "hosting", "identity_access_management", "network_configuration" >>
    \o SelectSeq(TAD_SECTION_ORDER,
                 LAMBDA s : s \notin {"hosting", "identity_access_management",
                                      "network_configuration"})

\* the sections that reached a terminal state, in the order they reached it
Finished == DictKeys(section_results)

\* the section in progress is the next of the order and all sections before it,
\* and no other, are finished
OneAtATime ==
    LET done == Finished
    IN  /\ Len(done) <= Len(ProcessingOrder)
        /\ done = Take(ProcessingOrder, Len(done))
        /\ Cardinality(Range(done)) = Len(done)
        /\ pc \in {"writer", "reviewer"} =>
              /\ Len(done) = idx - 1
              /\ current = ProcessingOrder[idx]
        /\ pc = "reviewer" => log.section = current
        /\ Generated => done = ProcessingOrder /\ Len(done) = 19

\* a Writer call is for the section in progress, and the run moves to the next
\* section only by recording the terminal state of the one in progress
WriterCallInTurn ==
    /\ log' # log => log'.section = ProcessingOrder[Len(Finished) + 1]
    /\ idx' # idx =>
          /\ idx' = idx + 1
          /\ Finished' = Append(Finished, ProcessingOrder[idx])
    /\ Len(Finished') > Len(Finished) =>
          /\ pc = "reviewer"
          /\ Finished' = Append(Finished, log.section)

SectionInputs == <<normalized_context, rag_data, naming_data>>

\* the stages before the sections have not made any Writer call
BeforeSections == pc \in {"start", "stage2", "naming"}

\* all queries and resolutions are made before the first Writer call
InputsComplete ==
    /\ BeforeSections => (log = NoLog /\ sections = <<>> /\ section_content = NoContent)
    /\ log # NoLog =>
          /\ normalized_context = normalize(raw)
          /\ retrieval_queries = Len(RagEntries)
          /\ \E scenario \in SearchScenarios : rag_data = retrieve_all(scenario)
          /\ naming_calls = Len(normalized_context.infrastructure.environments)
          /\ Len(naming_data) = naming_calls

\* no step of a section attempt touches the inputs or issues a query
InputsFrozen ==
    ~BeforeSections =>
        /\ SectionInputs' = SectionInputs
        /\ retrieval_queries' = retrieval_queries
        /\ naming_calls' = naming_calls
        /\ rag_metadata' = rag_metadata

\* C23: every retrieval query and every naming resolution of a run completes
\* before the first Writer call, and no Writer call, Reviewer call, retry or
\* failure modifies the normalized context, the retrieval results or the naming
\* artifacts, so every attempt of every section receives the same three values.
C23_FrozenInputs ==
    /\ [] InputsComplete
    /\ [][InputsFrozen]_vars

C23_Witness ==
    /\ pc = "reviewer"
    /\ idx = 2
    /\ attempt = 2
    /\ feedback.present
    /\ section_results[1][2].attempts = 1
    /\ retrieval_queries = 12
    /\ naming_calls = 3

Environments == normalized_context.infrastructure.environments

\* one artifact per environment, under the key of the environment, whether
\* the resolver returned a name or not
ArtifactPerEnvironment ==
    /\ BeforeSections => naming_calls = 0 /\ naming_data = <<>>
    /\ ~BeforeSections /\ result.metadata.status # "incomplete_requirements" =>
          /\ naming_calls = Len(Environments)
          /\ Len(naming_data) = Len(Environments)
          /\ \A i \in 1..Len(Environments) :
                /\ naming_data[i][1] = RgKey(Environments[i])
                /\ naming_data[i][2] \in {"name", "error"}
    \* the run is only ever ended by an exception of a third section attempt
    /\ pc = "raised" =>
          /\ Len(log.entries) = max_retries + 1
          /\ LastEntry.outcome \in {"writer_raised", "reviewer_raised"}

\* the resolver runs in the naming stage only, and only once
ResolvedOnce ==
    \/ UNCHANGED <<naming_calls, naming_data>>
    \/ pc = "naming" /\ naming_calls = 0 /\ pc' = "writer"

Nameless == \A i \in 1..Len(naming_data) : naming_data[i][2] = "error"

\* C24: the naming resolver is invoked exactly once per environment of the
\* normalized context; a result without a name is stored as the artifact of
\* its environment, is not retried, also not when sections are retried, and
\* never aborts the run.
C24_NamingNonFatal ==
    /\ [] ArtifactPerEnvironment
    /\ [][ResolvedOnce]_vars

C24_Witness ==
    /\ Generated
    /\ Nameless
    /\ Len(naming_data) = 3
    /\ naming_calls = 3
    /\ \E i \in 1..Len(section_results) : section_results[i][2].attempts = 3

(***************************************************************************)
(* Properties of the naming service                                        *)
(***************************************************************************)
IsErrorVariant(r) == "error" \in DOMAIN r /\ r.name = None
IsSuccessVariant(r) == "error" \notin DOMAIN r /\ r.name # None

\* no chunk kept by the search holds the pattern or describes it
NoPatternRetrieved ==
    \A i \in 1..Len(rag_results) :
        ~rag_results[i].has_pattern /\ ~rag_results[i].has_description

\* the region is the name, or part of the name, of a region of the retrieved
\* code table or of the fallback table
RegionKnown ==
    LET given == ReqGet(requirements, "cloud_region", <<"N", "o", "r", "t", "h", " ", "E", "u", "r", "o", "p", "e">>)
        wanted == Strip(LowerStr(given))
    IN  /\ IsStr(given)
        /\ wanted # <<>>
        /\ \/ DictHas(azure_region_fallback, wanted)
           \/ \E i \in 1..Len(rag_results) :
                 \E j \in 1..Len(rag_results[i].cloud_regions) :
                     Contains(LowerStr(rag_results[i].cloud_regions[j][2]), wanted)

\* C25 as stated: generate_resource_group_name never raises and returns
\* either the error variant (an error string and name = None) or the success
\* variant (a name and no error key), never both; it returns the error variant
\* whenever no naming-convention chunk is retrieved, no pattern can be
\* extracted, or the Azure region cannot be mapped to a cloud-region code.
C25_NamingVariants ==
    pc = "rg_done" =>
        /\ IsErrorVariant(rg_result) \/ IsSuccessVariant(rg_result)
        /\ ~(IsErrorVariant(rg_result) /\ IsSuccessVariant(rg_result))
        /\ rag_results = <<>> => IsErrorVariant(rg_result)
        /\ NoPatternRetrieved => IsErrorVariant(rg_result)
        /\ ~RegionKnown => IsErrorVariant(rg_result)

\* C39: every name returned by generate_resource_group_name that is not None
\* is accepted with valid = true by validate_resource_group_name.
C39_NamingRoundTrip ==
    pc = "rg_checked" => rg_validation.valid

(***************************************************************************)
(* Properties of _extract_acronym                                          *)
(***************************************************************************)
\* the acronym every call made so far returned for the name n
AcronymOf(n, a) ==
    (project_name = n /\ acronyms # <<>>) => \A i \in 1..Len(acronyms) : acronyms[i] = a

\* C26 as stated: the same full name gives the same acronym on every call,
\* "IoT Platform" gives "IOT", "Customer Portal" gives "CP", "Data Analytics
\* Platform" gives "DAP", and a single token without spaces such as
\* "DataAnalyticsPlatform" gives its first 4 letters in upper case.
C26_DocumentedAcronyms ==
    /\ \A i, j \in 1..Len(acronyms) : acronyms[i] = acronyms[j]
    /\ AcronymOf(<<"I", "o", "T", " ", "P", "l", "a", "t", "f", "o", "r", "m">>, <<"I", "O", "T">>)
    /\ AcronymOf(<<"C", "u", "s", "t", "o", "m", "e", "r", " ", "P", "o", "r", "t", "a", "l">>, <<"C", "P">>)
    /\ AcronymOf(<<"D", "a", "t", "a", " ", "A", "n", "a", "l", "y", "t", "i", "c", "s", " ", "P", "l", "a", "t", "f", "o", "r", "m">>,
                 <<"D", "A", "P">>)
    /\ AcronymOf(<<"D", "a", "t", "a", "A", "n", "a", "l", "y", "t", "i", "c", "s", "P", "l", "a", "t", "f", "o", "r", "m">>,
                 <<"D", "A", "T", "A">>)
    /\ (Len(SplitWords(project_name)) = 1 /\ acronyms # <<>>) =>
          acronyms[1] = UpperStr(Take(SplitWords(project_name)[1], 4))

\* the words of the name that the rule works on: the words that are no
\* stopword, or every word when all of them are stopwords
Stopwords ==
    { <<"p", "l", "a", "t", "f", "o", "r", "m">>, <<"s", "y", "s", "t", "e", "m">>, <<"s", "e", "r", "v", "i", "c", "e">>,
      <<"a", "p", "p", "l", "i", "c", "a", "t", "i", "o", "n">>, <<"p", "o", "r", "t", "a", "l">> }

RemainingWords ==
    LET words == SplitWords(project_name)
        kept == SelectSeq(words, LAMBDA w : LowerStr(w) \notin Stopwords)
    IN  IF kept = <<>> THEN words ELSE kept

NonEmptyFields(r) == {f \in OptFieldSet : r[f] \notin {"absent", "empty"}}

\* a / b <= c / d
FractionLeq(x, y) == x[1] * y[2] <= y[1] * x[2]

\* C35: completeness.score equals min(1, (number of the 13 optional fields
\* present with a non-empty value + 5 if analysis text is present) / 13); it
\* is within [0,1] and does not decrease when a further field is supplied.
C35_CompletenessScore ==
    pc = "norm_done" =>
        LET score == normalized_context.completeness.score
            weight == Cardinality(NonEmptyFields(raw))
                      + (IF "analysis" \in NonEmptyFields(raw) THEN 5 ELSE 0)
        IN  /\ score[2] = 13
            /\ score[1] = (IF weight >= 13 THEN 13 ELSE weight)
            /\ 0 <= score[1]
            /\ score[1] <= score[2]
            /\ \A f \in OptFieldSet \ NonEmptyFields(raw) :
                  FractionLeq(score,
                      normalize([raw EXCEPT ![f] = "value"]).completeness.score)

C35_Witness ==
    /\ pc = "norm_done"
    /\ Cardinality(NonEmptyFields(raw)) = 10
    /\ "analysis" \in NonEmptyFields(raw)
    /\ normalized_context.completeness.provided_fields = 15
    /\ normalized_context.completeness.score = <<13, 13>>

(***************************************************************************)
(* Properties of the combined review                                       *)
(***************************************************************************)
Combined == pc = "review_done" /\ review_result.validation_method = "combined"

\* C36: the final validity of a combined review depends only on the combined
\* issue list and the combined score: it is valid exactly when no issue is
\* critical and 0.6 x automated score + 0.4 x model score reaches 0.6; the
\* PASS/FAIL verdict of the model and the valid flag of the automated phase are
\* not consulted.
C36_VerdictInputs ==
    Combined =>
        /\ review_result.issues = automated_validation.issues \o llm_validation.issues
        /\ 10 * review_result.score <=
              6 * automated_validation.score + 4 * llm_validation.score
        /\ 10 * review_result.score >
              6 * automated_validation.score + 4 * llm_validation.score - 10
        /\ review_result.valid <=>
              /\ \A i \in 1..Len(review_result.issues) :
                    review_result.issues[i].severity # "critical"
              /\ review_result.score >= 60

C36_Witness ==
    /\ Combined
    /\ review_result.valid
    /\ llm_response.kind = "text"
    /\ ~llm_response.text.pass
    /\ ~llm_validation.valid
    /\ automated_validation.score < 60
    /\ ~automated_validation.valid

\* C37: every issue of every validation result, the issues parsed from the
\* model-assisted review included, has a severity in {minor, major, critical}
\* and a category in {structural, rag, content}.
C37_IssueVocabulary ==
    pc = "review_done" =>
        \A i \in 1..Len(review_result.issues) :
            /\ review_result.issues[i].severity \in {"minor", "major", "critical"}
            /\ review_result.issues[i].category \in {"structural", "rag", "content"}

(***************************************************************************)
(* Properties of the query texts                                           *)
(***************************************************************************)
\* C38: for the architecture reference_patterns entry the query sent to the
\* embedding and retrieval collaborators is customized by the project type
\* inferred from the project name and description: a context with another
\* inferred type yields another query text; every other taxonomy entry is
\* queried with its static template.
C38_QueryCustomization ==
    \A i \in 1..Len(query_log) :
        IF query_log[i][1] = "architecture.reference_patterns"
        THEN \A other \in RagContexts :
                 _infer_project_type(other) # _infer_project_type(normalized_context)
                     => QueryText(query_log[i][1], other) # query_log[i][3]
        ELSE query_log[i][3] = rag_queries(query_log[i][1])

(***************************************************************************)
(* Properties of the completeness flags                                    *)
(***************************************************************************)
\* analysis, functional or non-functional requirements were supplied
ContentSupplied ==
    \E f \in {"analysis", "functional_requirements", "non_functional_requirements"} :
        raw[f] \notin {"absent", "empty"}

MissingFields == Range(normalized_context.completeness.missing_fields)

FlagsAgree ==
    /\ normalized_context.completeness.status \in {"READY", "INCOMPLETE"}
    /\ normalized_context.completeness.status = "READY"
          <=> normalized_context.completeness.is_complete
    /\ normalized_context.completeness.is_complete => MissingFields = {}
    /\ MissingFields # {} => ~ContentSupplied

\* C40 as stated: status = READY if and only if is_complete is true;
\* is_complete implies missing_fields is empty; missing_fields can be non-empty
\* only when neither analysis nor functional nor non-functional requirements
\* were supplied; missing_fields never contains project_name or cloud_region.
C40_FlagsOriginal ==
    pc = "norm_done" =>
        /\ FlagsAgree
        /\ "project_name" \notin MissingFields
        /\ "cloud_region" \notin MissingFields

\* C40 amended: status = READY if and only if is_complete is true; is_complete
\* implies missing_fields is empty; missing_fields can be non-empty only when
\* neither analysis nor functional nor non-functional requirements were
\* supplied; missing_fields never contains project_name, and it contains
\* cloud_region exactly when no such content was supplied and the cloud_region
\* key is present with an empty value, because only an absent key is replaced
\* by the default region.
C40_FlagsAmended ==
    pc = "norm_done" =>
        /\ FlagsAgree
        /\ "project_name" \notin MissingFields
        /\ "cloud_region" \in MissingFields
              <=> (~ContentSupplied /\ raw["cloud_region"] = "empty")

C40_Witness ==
    /\ pc = "norm_done"
    /\ raw["cloud_region"] = "empty"
    /\ raw["project_name"] = "empty"
    /\ raw["description"] = "value"
    /\ normalized_context.completeness.missing_fields = <<"cloud_region">>
    /\ normalized_context.completeness.status = "INCOMPLETE"
    /\ ~normalized_context.completeness.is_complete

(***************************************************************************)
(* Properties of repeated normalize calls                                  *)
(***************************************************************************)
Returned(i) == ~normalize_calls[i].raised
ContextOf(i) == normalize_calls[i].context

WellTyped == \A f \in OptFieldSet : raw[f] \in {"absent", "empty", "value", "value_named", "list"}

\* the defaults that take the place of absent keys, the project name aside
DefaultsForAbsent(c) ==
    /\ raw["cloud_region"] = "absent" => c.infrastructure.primary_region = "North Europe"
    /\ raw["business_line"] = "absent" => c.project.business_line = "GLB"
    /\ raw["region"] = "absent" => c.project.region = "GLB"
    /\ raw["environments"] = "absent" =>
          c.infrastructure.environments = <<"DEV", "PRD", "TST">>
    /\ raw["functional_requirements"] = "absent" => c.requirements.functional = <<>>
    /\ raw["non_functional_requirements"] = "absent" =>
          c.requirements.non_functional = <<>>
    /\ raw["constraints"] = "absent" => c.requirements.constraints = <<>>
    /\ raw["assumptions"] = "absent" => c.requirements.assumptions = <<>>
    /\ raw["risks"] = "absent" => c.requirements.risks = <<>>

\* C28 as stated: normalize never raises for an input in which any subset of
\* the optional keys is absent and every present key holds a string or a list;
\* absent keys are replaced by defaults: project name "Project", region "North
\* Europe", business line and region "GLB", environments DEV/PRD/TST, empty
\* requirement lists.
C28_Robustness ==
    WellTyped =>
        \A i \in 1..Len(normalize_calls) :
            /\ Returned(i)
            /\ DefaultsForAbsent(ContextOf(i))
            /\ raw["project_name"] = "absent" =>
                  ContextOf(i).project.full_name = "Project"

(***************************************************************************)
(* Properties of the run metadata                                          *)
(***************************************************************************)
\* the sections whose recorded validation has valid = true
ValidRecorded == {i \in 1..Len(validation_report) : validation_report[i][2].valid}

\* the sections that _generate_section_with_validation returned as valid
ReturnedValid == {i \in 1..Len(section_results) : section_results[i][2].via = "valid"}

\* C30: in every result of a run that generated sections, total_sections is
\* the number of sections generated, valid_sections is the number of sections
\* whose recorded validation has valid = true (sections accepted as degraded
\* and FAILED sections are not counted), average_score is the sum of the
\* recorded scores divided by their number, and
\* 0 <= valid_sections <= total_sections.
C30_RunMetadata ==
    Generated =>
        /\ result.metadata.total_sections = Len(sections)
        /\ result.metadata.total_sections = Len(GenerationOrder)
        /\ result.metadata.valid_sections = Cardinality(ValidRecorded)
        /\ result.metadata.valid_sections = Cardinality(ReturnedValid)
        /\ Len(validation_report) = Len(sections)
        /\ Len(validation_report) > 0
        /\ result.metadata.average_score =
              << SumSeq([i \in 1..Len(validation_report) |->
                            validation_report[i][2].score]),
                 Len(validation_report) >>
        /\ 0 <= result.metadata.valid_sections
        /\ result.metadata.valid_sections <= result.metadata.total_sections

C30_Witness ==
    /\ Generated
    /\ \E i \in 1..Len(section_results) : section_results[i][2].via = "degraded"
    /\ result.metadata.valid_sections = result.metadata.total_sections - 1
    /\ result.metadata.average_score[1] < 100 * result.metadata.average_score[2]

(***************************************************************************)
(* Properties of the feedback carried into the Writer calls                *)
(***************************************************************************)
\* the feedback block the prompt shows for the critical issues and the
\* recommendations of validation v
BlockOf(v) ==
    FeedbackContext([ present         |-> TRUE,
                      issues          |-> SelectSeq(v.issues,
                                             LAMBDA i : i.severity = "critical"),
                      recommendations |-> v.recommendations ])

\* the attempts before attempt k of the section that completed a validation
ValidatedBefore(k) == {j \in 1..(k - 1) : log.entries[j].outcome = "validated"}

LatestValidated(k) == CHOOSE j \in ValidatedBefore(k) : \A i \in ValidatedBefore(k) : i <= j

\* C31 as stated: the first Writer call of a section carries no feedback; every
\* later Writer call of that section carries a feedback block made of exactly
\* the critical issues and all the recommendations of the prior attempt's
\* validation.
C31_FeedbackOriginal ==
    \A k \in 1..Len(log.entries) :
        log.entries[k].prompt_feedback =
            IF k = 1 THEN <<>> ELSE BlockOf(log.entries[k - 1].validation)

\* C31 amended: the first Writer call of a section carries no feedback; every
\* later Writer call of that section carries a feedback block made of exactly
\* the critical issues and all the recommendations of the validation of the
\* latest earlier attempt of that section that completed a validation (major
\* and minor issues are not forwarded), and carries no feedback when every
\* earlier attempt ended in an exception.
C31_FeedbackAmended ==
    \A k \in 1..Len(log.entries) :
        log.entries[k].prompt_feedback =
            IF ValidatedBefore(k) = {} THEN <<>>
            ELSE BlockOf(log.entries[LatestValidated(k)].validation)

C31_Witness ==
    /\ Len(log.entries) = 3
    /\ log.entries[1].outcome = "validated"
    /\ \E i \in 1..Len(log.entries[1].validation.issues) :
           log.entries[1].validation.issues[i].severity = "major"
    /\ Len(CriticalOf(log.entries[1].validation.issues)) = 2
    /\ log.entries[2].outcome \in {"writer_raised", "reviewer_raised"}
    /\ Len(log.entries[2].prompt_feedback) = 4
    /\ log.entries[3].prompt_feedback = log.entries[2].prompt_feedback

(***************************************************************************)
(* Properties of the exceptions raised inside an attempt                   *)
(***************************************************************************)
RaisedOutcomes == {"writer_raised", "reviewer_raised"}

\* this step is an attempt of the current section ending in an exception
AttemptRaises ==
    /\ pc \in {"writer", "reviewer"}
    /\ log' # log
    /\ log'.entries[Len(log'.entries)].outcome \in RaisedOutcomes

\* what the step leaves alone: the section in progress and what is stored
SectionKept ==
    /\ idx' = idx
    /\ sections' = sections
    /\ validation_report' = validation_report
    /\ section_results' = section_results
    /\ result' = result

\* attempts 1 and 2: the exception is swallowed and the next attempt runs with
\* the feedback that was pending
Swallowed ==
    /\ pc' = "writer"
    /\ attempt' = attempt + 1
    /\ Len(log'.entries) = attempt'
    /\ feedback' = feedback
    /\ ValidatedBefore(Len(log.entries) + 1) = {} => feedback' = NoFeedback
    /\ SectionKept

\* attempt 3: the exception leaves generate_tad, which returns nothing
Propagated ==
    /\ pc' = "raised"
    /\ result' = NoResult
    /\ SectionKept

\* C32: an exception raised by the Writer or the Reviewer on attempt 1 or 2 of
\* a section is swallowed, consumes that attempt, leaves the pending feedback
\* as it was (none if no validation has completed yet) and the next attempt
\* runs; an exception on attempt 3 is re-raised out of generate_tad, also when
\* an earlier attempt of the section completed a validation, and the run makes
\* no further step.
C32_AttemptExceptions ==
    /\ [][AttemptRaises => IF attempt + 1 < max_retries + 1
                            THEN Swallowed ELSE Propagated]_vars
    /\ [][pc = "raised" => pc' = "raised" /\ result' = NoResult]_vars

C32_Witness ==
    /\ pc = "raised"
    /\ result = NoResult
    /\ Len(log.entries) = 3
    /\ log.entries[1].outcome = "validated"
    /\ log.entries[2].outcome \in RaisedOutcomes
    /\ log.entries[3].outcome = "reviewer_raised"
    /\ log.entries[3].prompt_feedback = BlockOf(log.entries[1].validation)

(***************************************************************************)
(* Properties of the content of the returned document                      *)
(***************************************************************************)
\* C33: in every returned document, a section whose recorded validation
\* contains at least one critical issue is represented by the failure
\* placeholder, and the placeholder is used only for such sections; Writer
\* text is included only when the validation of the attempt that produced it
\* has no critical issue.
C33_NoCriticalContent ==
    Generated =>
        /\ Len(result.tad_markdown.body) = Len(result.validation_report)
        /\ \A i \in 1..Len(result.tad_markdown.body) :
              LET c == result.tad_markdown.body[i]
                  v == DictGet(result.validation_report, c.section)
              IN  /\ c.kind \in {"writer", "error_section"}
                  /\ HasCritical(v) <=> c.kind = "error_section"
                  /\ c.kind = "writer" =>
                        /\ c.attempt = DictGet(section_results, c.section).attempts
                        /\ ~HasCritical(v)
                        /\ log.section = c.section =>
                              /\ log.entries[c.attempt].outcome = "validated"
                              /\ log.entries[c.attempt].validation = v

C33_Witness ==
    /\ Generated
    /\ \E i \in 1..Len(result.tad_markdown.body) :
           LET c == result.tad_markdown.body[i]
           IN  /\ c.kind = "error_section"
               /\ HasCritical(DictGet(result.validation_report, c.section))
               /\ DictGet(result.validation_report, c.section).score >= 60
    /\ \E i \in 1..Len(result.tad_markdown.body) :
           result.tad_markdown.body[i].kind = "writer"

\* the hyphen-separated segments of the name under validation
NameSegments == SplitOn(rg_name, {"-"})

\* C29 as stated: a name that does not have six hyphen-separated segments is
\* rejected with an error that mentions the expected 6 segments, and a
\* six-segment name whose last segment does not start with "RG" is rejected
\* with the error that the last segment must start with 'RG'.
C29_RejectionReasons ==
    (pc = "rg_validated" /\ IsStr(rg_name)) =>
        /\ Len(NameSegments) # 6 =>
              /\ ~rg_validation.valid
              /\ rg_validation.error = "Expected 6 segments, found {len(segments)}"
        /\ (Len(NameSegments) = 6 /\ ~StartsWith(NameSegments[6], <<"R", "G">>)) =>
              /\ ~rg_validation.valid
              /\ rg_validation.error = "Last segment must start with 'RG'"

====
